---- MODULE Spec2Model ----
(***************************************************************************)
(* Client-side script of the legal-practice brochure site, in its three    *)
(* versions:                                                               *)
(*   "part_000"  src/unnamed/part_000  (object modules, simulated forms)   *)
(*   "app"       src/app.js            (closure modules, Web3Forms)        *)
(*   "part_001"  src/unnamed/part_001  (compact rewrite, no testimonials)  *)
(* The page (DOM shape, storage, platform features) is an input: `page`.   *)
(* All callbacks run on the single UI thread, so each handler is one step. *)
(***************************************************************************)
EXTENDS Integers, Sequences, FiniteSets, TLC

VARIABLES
    ver,        \* which of the three scripts the page loads
    page,       \* the page and platform the script finds (fixed per run)
    runner,     \* App controller: ready signal, invocation log, errors
    theme,      \* ThemeToggle: document attribute, stored value, icon
    themeHist,  \* history of theme operations (observation only)
    car,        \* TestimonialsCarousel: index, active marks, timers
    carHist,    \* history of carousel events (observation only)
    stats,      \* StatsCounter: observer, counter elements, their animations
    nav,        \* Navigation: scroll position, header and link marks, throttle
    modal,      \* Modal: the consultation dialog and the body's scrolling
    form,       \* the page's form: fields, submit control, requests, timers
    post,       \* one submission's form data, configured token and POST body
    anim        \* ScrollAnimations: observed elements and their fade-in

vars ==
    <<ver, page, runner, theme, themeHist, car, carHist, stats, nav, modal,
      form, post, anim>>

(***************************************************************************)
(* Bounds of the model.                                                    *)
(***************************************************************************)
MaxSlides == 3
MaxButtons == 3
\* carouselInterval, in abstract time units
IntervalUnits == 3
\* .stat-card__number[data-target] elements on the page
MaxCounters == 2
\* counterAnimationDuration, in abstract time units (in part_000 one unit
\* is one 16 ms period of the interval timer)
DurationUnits == 3
\* entries handed to one IntersectionObserver callback
MaxEntries == 2
\* section[id] elements on the page
MaxSections == 2
\* timeouts of one kind outstanding at a time
MaxPending == 2
MaxFields == 2
MaxAnimEls == 3

Versions == {"part_000", "app", "part_001"}

\* JavaScript NaN as an index value (x % 0)
NaN == -1

Min(a, b) == IF a < b THEN a ELSE b

(***************************************************************************)
(* The page: which elements exist, and which platform features work.       *)
(***************************************************************************)
DefaultPage ==
    [ hasToggle         |-> TRUE,    \* #theme-toggle
      hasIcon           |-> TRUE,    \* .theme-toggle__icon
      storageWriteFails |-> FALSE,   \* localStorage.setItem throws
      hasIO             |-> TRUE,    \* IntersectionObserver is defined
      hasHeroStats      |-> TRUE,    \* .hero__stats
      hasAnimEls        |-> TRUE,    \* elements of ScrollAnimations
      nSlides           |-> 0,       \* .testimonial-card
      nButtons          |-> 0,       \* .testimonial-nav-btn
      hasCarousel       |-> TRUE,    \* #testimonials-carousel
      counters          |-> << >>,   \* .stat-card__number[data-target]:
                                     \* text content and data-target of each
      hasHeader         |-> TRUE,    \* #header
      hasNavMenu        |-> TRUE,    \* #nav-menu
      hasNavToggle      |-> TRUE,    \* #nav-toggle
      hasNavClose       |-> TRUE,    \* #nav-close
      nSections         |-> 0,       \* section[id], in document order
      firstTop          |-> 0,       \* offsetTop of the first section (px)
      gap               |-> 0,       \* px between one section and the next
      links             |-> << >>,   \* .nav__link: the section each href
                                     \* names, 0 for the bare href "#"
      hash              |-> 0,       \* location.hash: a section, 0 if empty
      markedLinks       |-> {},      \* links the markup marks active
      hasModal          |-> TRUE,    \* #consultation-modal
      hasOpenButtons    |-> TRUE,    \* .consultation-btn
      hasCloseButton    |-> TRUE,    \* #modal-close
      hasModalInput     |-> TRUE,    \* an input inside the dialog
      ariaMarkup        |-> "true",  \* aria-hidden as the markup has it
                                     \* ("none": no such attribute)
      formKind          |-> "none",  \* the form of the page: "consultation"
                                     \* (inside the dialog), "contact", "none"
      hasSubmitButton   |-> TRUE,    \* button[type="submit"] in the form
      label             |-> "Submit",   \* that button's label in the markup
      keyConfigured     |-> TRUE,    \* AppConfig.web3FormsAccessKey is set
      otherSubmit       |-> FALSE,   \* the form has a second submit control
      hasSwiper         |-> TRUE,    \* the Swiper library is defined
      nAnimEls          |-> 1 ]      \* elements ScrollAnimations selects
                                     \* (hasAnimEls says there is one)

(***************************************************************************)
(* Theme (Utils.getCurrentTheme / Utils.setTheme / ThemeToggle).           *)
(***************************************************************************)
Themes == {"light", "dark"}

Other(t) == IF t = "dark" THEN "light" ELSE "dark"

getCurrentTheme(th) ==
    IF th.stored # "none" THEN th.stored
    ELSE IF th.systemDark THEN "dark" ELSE "light"

\* Faulty variant of setTheme: writes the storage but not the attribute.
setTheme_noAttr(v, p, th, t) ==
    IF p.storageWriteFails
    THEN [theme |-> th, threw |-> (v # "part_000")]
    ELSE [theme |-> [th EXCEPT !.stored = t], threw |-> FALSE]

\* The attribute is set first; a failing storage write is swallowed by the
\* try/catch of part_000 and propagates in the two later versions.
setTheme(v, p, th, t) ==
    LET a == [th EXCEPT !.attr = t] IN
    IF p.storageWriteFails
    THEN [theme |-> a, threw |-> (v # "part_000")]
    ELSE [theme |-> [a EXCEPT !.stored = t], threw |-> FALSE]

updateIcon(p, th, t) ==
    IF p.hasIcon
    THEN [th EXCEPT !.icon = IF t = "dark" THEN "sun" ELSE "moon"]
    ELSE th

\* applyTheme / apply of app.js and part_001; setInitialTheme's and
\* toggleTheme's body in part_000: set the theme, then the icon.
applyTheme(v, p, th, t) ==
    LET r == setTheme(v, p, th, t) IN
    IF r.threw THEN r
    ELSE [theme |-> updateIcon(p, r.theme, t), threw |-> FALSE]

ThemeToggle_init(v, p, th) ==
    IF v = "part_000"
    THEN LET r == applyTheme(v, p, th, getCurrentTheme(th)) IN
         [ theme |-> [r.theme EXCEPT !.clickBound = p.hasToggle,
                                     !.mediaBound = TRUE],
           threw |-> FALSE ]
    ELSE IF ~p.hasToggle THEN [theme |-> th, threw |-> FALSE]
    ELSE LET b == [th EXCEPT !.clickBound = TRUE] IN
         applyTheme(v, p, b, getCurrentTheme(b))

\* click on #theme-toggle
toggleTheme(v, p, th) ==
    applyTheme(v, p, th, Other(getCurrentTheme(th))).theme

\* matchMedia('(prefers-color-scheme: dark)') change; only part_000 listens
systemChange(v, p, th) ==
    LET s == [th EXCEPT !.systemDark = ~@] IN
    IF s.mediaBound /\ s.stored = "none"
    THEN applyTheme(v, p, s, IF s.systemDark THEN "dark" ELSE "light").theme
    ELSE s

(***************************************************************************)
(* Testimonials carousel (part_000 and app.js; part_001 has none).         *)
(* Slides and buttons are numbered from 0, as in the code.                 *)
(***************************************************************************)
SlideIdx(p) == 0 .. (p.nSlides - 1)
ButtonIdx(p) == 0 .. (p.nButtons - 1)

\* JavaScript a % b for a >= 0: NaN when b is 0 or an operand is NaN
JsMod(a, b) == IF a = NaN \/ b = NaN \/ b = 0 THEN NaN ELSE a % b
JsInc(a) == IF a = NaN THEN NaN ELSE a + 1

\* Faulty variant of showSlide: marks the new slide and button without
\* clearing the marks of the others.
showSlide_keepOld(v, p, c, index) ==
    IF v = "app" /\ (index < 0 \/ index >= p.nSlides) THEN c
    ELSE [c EXCEPT !.slideActive = @ \cup ({index} \cap SlideIdx(p)),
                   !.btnActive = @ \cup ({index} \cap ButtonIdx(p)),
                   !.currentSlide = index,
                   !.shown = TRUE]

\* Faulty variant of showSlide: app.js's range guard admits index = length.
showSlide_offByOne(v, p, c, index) ==
    IF v = "app" /\ (index < 0 \/ index > p.nSlides) THEN c
    ELSE [c EXCEPT !.slideActive = {index} \cap SlideIdx(p),
                   !.btnActive = {index} \cap ButtonIdx(p),
                   !.currentSlide = index,
                   !.shown = TRUE]

\* app.js guards the range itself; part_000 marks slides[index] only if it
\* exists and relies on goToSlide for the guard. (shown is an observation:
\* some call of showSlide has taken effect.)
showSlide(v, p, c, index) ==
    IF v = "app" /\ (index < 0 \/ index >= p.nSlides) THEN c
    ELSE [c EXCEPT !.slideActive = {index} \cap SlideIdx(p),
                   !.btnActive = {index} \cap ButtonIdx(p),
                   !.currentSlide = index,
                   !.shown = TRUE]

\* Faulty variant of goToSlide: the guard admits index = totalSlides.
goToSlide_offByOne(v, p, c, index) ==
    IF v = "part_000"
    THEN IF index >= 0 /\ index <= c.totalSlides
         THEN showSlide(v, p, c, index) ELSE c
    ELSE showSlide_offByOne(v, p, c, index)

\* goTo: part_000's goToSlide; in app.js the click handler calls showSlide
goToSlide(v, p, c, index) ==
    IF v = "part_000"
    THEN IF index >= 0 /\ index < c.totalSlides
         THEN showSlide(v, p, c, index) ELSE c
    ELSE showSlide(v, p, c, index)

\* Faulty variant of nextSlide: stops at the last slide, no wrapping.
nextSlide_noWrap(v, p, c) ==
    LET n == IF v = "part_000" THEN c.totalSlides ELSE p.nSlides IN
    showSlide(v, p, [c EXCEPT !.nextInvoked = TRUE],
              IF c.currentSlide + 1 >= n THEN c.currentSlide
              ELSE c.currentSlide + 1)

nextSlide(v, p, c) ==
    LET n == IF v = "part_000" THEN c.totalSlides ELSE p.nSlides IN
    showSlide(v, p, [c EXCEPT !.nextInvoked = TRUE],
              JsMod(JsInc(c.currentSlide), n))

\* setInterval / clearInterval: the live interval timers, each a handle h
\* with the time t elapsed since it was scheduled or last fired. Handle 0
\* is null.
LiveTimers(c) == {x.h : x \in c.timers}

FreshHandle(c) ==
    CHOOSE i \in 1 .. (Cardinality(LiveTimers(c)) + 1) :
        /\ i \notin LiveTimers(c)
        /\ \A j \in 1 .. (i - 1) : j \in LiveTimers(c)

clearInterval(c, h) == [c EXCEPT !.timers = {x \in @ : x.h # h}]

setInterval(c) ==
    LET h == FreshHandle(c) IN
    [c EXCEPT !.timers = @ \cup {[h |-> h, t |-> 0]},
              !.autoplayTimer = h]

\* Faulty variant of stopAutoplay: pausing also rewinds to the first slide.
stopAutoplay_rewind(v, c) ==
    [clearInterval(c, c.autoplayTimer) EXCEPT
        !.autoplayTimer = IF v = "part_000" THEN 0 ELSE @,
        !.currentSlide = 0]

\* Faulty variant of stopAutoplay: the handle is dropped, the timer is not
\* cancelled.
stopAutoplay_forgets(v, c) ==
    IF v = "part_000" THEN [c EXCEPT !.autoplayTimer = 0] ELSE c

\* part_000's stopAutoplay clears and nulls the handle; app.js's mouseenter
\* handler only calls clearInterval and keeps the stale handle.
stopAutoplay(v, c) ==
    IF v = "part_000"
    THEN IF c.autoplayTimer # 0
         THEN [clearInterval(c, c.autoplayTimer) EXCEPT !.autoplayTimer = 0]
         ELSE c
    ELSE clearInterval(c, c.autoplayTimer)

\* Faulty variant of startAutoplay: no guard on the number of slides.
startAutoplay_noGuard(v, p, c) ==
    setInterval(stopAutoplay(v, c))

\* Faulty variant of startAutoplay: the previous timer is not cancelled.
startAutoplay_noClear(v, p, c) ==
    IF v = "part_000" /\ ~(c.totalSlides > 1) THEN c ELSE setInterval(c)

startAutoplay(v, p, c) ==
    LET s == stopAutoplay(v, c) IN
    IF v = "part_000"
    THEN IF s.totalSlides > 1 THEN setInterval(s) ELSE s
    ELSE setInterval(s)

\* part_000: stopAutoplay(); startAutoplay()
restartAutoplay(v, p, c) == startAutoplay(v, p, stopAutoplay(v, c))

TestimonialsCarousel_init(v, p, c) ==
    IF v = "part_000"
    THEN LET a == [c EXCEPT !.totalSlides = p.nSlides]
             b == IF a.totalSlides = 0 THEN a ELSE showSlide(v, p, a, 0)
             d == [b EXCEPT !.navBound = TRUE, !.hoverBound = p.hasCarousel]
         IN [car |-> startAutoplay(v, p, d), threw |-> FALSE]
    ELSE IF v = "app"
    THEN IF p.nSlides <= 1 THEN [car |-> c, threw |-> FALSE]
         ELSE LET b == [c EXCEPT !.navBound = TRUE] IN
              IF ~p.hasCarousel
              THEN [car |-> b, threw |-> TRUE]   \* null.addEventListener
              ELSE LET d == [b EXCEPT !.hoverBound = TRUE] IN
                   [car |-> startAutoplay(v, p, showSlide(v, p, d, 0)),
                    threw |-> FALSE]
    ELSE [car |-> c, threw |-> FALSE]

\* click on .testimonial-nav-btn number i
navClick(v, p, c, i) ==
    IF v = "part_000"
    THEN restartAutoplay(v, p, goToSlide(v, p, c, i))
    ELSE startAutoplay(v, p, goToSlide(v, p, c, i))

mouseEnter(v, p, c) == [stopAutoplay(v, c) EXCEPT !.hovering = TRUE]

mouseLeave(v, p, c) == [startAutoplay(v, p, c) EXCEPT !.hovering = FALSE]

\* the interval callback of timer h
timerFire(v, p, c, h) ==
    [nextSlide(v, p, c) EXCEPT
        !.timers = {IF x.h = h THEN [x EXCEPT !.t = 0] ELSE x : x \in @}]

\* one unit of time passes
elapse(c) == [c EXCEPT !.timers = {[x EXCEPT !.t = @ + 1] : x \in @}]

(***************************************************************************)
(* Statistics counters (Utils.animateNumber / Utils.animateCounter and     *)
(* StatsCounter). Counter elements are numbered from 1 in document order.  *)
(* Times are in abstract units; stats.now is performance.now().            *)
(***************************************************************************)
CounterIdx(s) == DOMAIN s.counters

Cube(x) == x * x * x

\* Math.floor(start + change * easeOutCubic(progress)) with
\* progress = Math.min(elapsed / duration, 1), in exact arithmetic:
\* 1 - (1 - e/D)^3 = (D^3 - (D - e)^3) / D^3. There is no lower clamp.
displayedAt(start, change, elapsed) ==
    LET e == Min(elapsed, DurationUnits) IN
    (start * Cube(DurationUnits)
        + change * (Cube(DurationUnits) - Cube(DurationUnits - e)))
      \div Cube(DurationUnits)

\* Utils.animateNumber of app.js and part_001, up to its first
\* requestAnimationFrame; only app.js returns early when change is 0.
animateNumber(v, c, now) ==
    IF v = "app" /\ c.target - c.text = 0 THEN c
    ELSE [c EXCEPT !.start = c.text, !.startTime = now, !.running = TRUE,
                   !.starts = Min(@ + 1, 2)]

\* Faulty variant of animate: another frame is requested every time
animate_noStop(c, ts) ==
    LET elapsed == ts - c.startTime IN
    [c EXCEPT !.text = displayedAt(c.start, c.target - c.start, elapsed),
              !.running = TRUE]

\* The frame callback `animate` with timestamp ts; it asks for another
\* frame while progress < 1.
animate(c, ts) ==
    LET elapsed == ts - c.startTime IN
    [c EXCEPT !.text = displayedAt(c.start, c.target - c.start, elapsed),
              !.running = elapsed < DurationUnits]

\* Utils.animateCounter of part_000 up to setInterval. current is kept
\* multiplied by duration / 16 (= DurationUnits), so that adding
\* increment = (target - start) / (duration / 16) adds target - start.
animateCounter(c, now) ==
    [c EXCEPT !.start = c.text, !.current = c.text * DurationUnits,
              !.startTime = now, !.lastFire = now, !.running = TRUE,
              !.starts = Min(@ + 1, 2)]

\* One run of the interval callback of animateCounter.
intervalCallback(c, now) ==
    LET cur == c.current + (c.target - c.start)
        done == cur >= c.target * DurationUnits
        fin == IF done THEN c.target * DurationUnits ELSE cur
    IN [c EXCEPT !.current = fin, !.running = ~done,
                 !.text = fin \div DurationUnits, !.lastFire = now]

\* What an intersection callback does once it has decided to start:
\* part_000 starts every counter at once (animateCounters); app.js and
\* part_001 set one timeout per counter, index * 150 ms away.
startCounters(v, s) ==
    LET t == [i \in CounterIdx(s) |->
                 [s.counters[i] EXCEPT !.triggers = Min(@ + 1, 2)]]
    IN IF v = "part_000"
       THEN [s EXCEPT !.counters = [i \in CounterIdx(s) |->
                                       animateCounter(t[i], s.now)]]
       ELSE [s EXCEPT !.counters = t,
                      !.pending = @ \cup CounterIdx(s)]

\* The IntersectionObserver callback; entries is the sequence of the
\* isIntersecting values of the entries delivered together.
observerCallback(v, s, entries) ==
    IF v = "part_000"
    THEN IF ~s.hasAnimated /\ \E k \in 1 .. Len(entries) : entries[k]
         THEN [startCounters(v, s) EXCEPT !.hasAnimated = TRUE,
                                          !.observing = FALSE]
         ELSE s
    ELSE IF entries[1]
         THEN [startCounters(v, s) EXCEPT !.observing = FALSE]
         ELSE s

\* The timeout set for counter i expires: Utils.animateNumber runs.
startTimeout(v, s, i) ==
    [s EXCEPT !.pending = @ \ {i},
              !.counters[i] = animateNumber(v, @, s.now)]

\* new IntersectionObserver(...) where the constructor is undefined.
\* part_000 tests window.IntersectionObserver first and keeps every init
\* in its own try/catch.
StatsCounter_throws(v, p) ==
    v # "part_000" /\ p.hasHeroStats /\ ~p.hasIO

StatsCounter_init(v, p, s) ==
    IF v = "part_000"
    THEN IF ~p.hasIO \/ Len(p.counters) = 0
         THEN [stats |-> s, threw |-> FALSE]
         ELSE [stats |-> [s EXCEPT !.observing = TRUE], threw |-> FALSE]
    ELSE IF ~p.hasHeroStats THEN [stats |-> s, threw |-> FALSE]
    ELSE IF StatsCounter_throws(v, p) THEN [stats |-> s, threw |-> TRUE]
    ELSE [stats |-> [s EXCEPT !.observing = TRUE], threw |-> FALSE]

(***************************************************************************)
(* Navigation: header state and active-link highlighter on scroll.         *)
(* Sections and links are numbered from 1 in document order; positions     *)
(* are in px. The section with id "home" is the first one.                 *)
(***************************************************************************)
\* section.offsetHeight and header.offsetHeight of the pages considered
SectionHeight == 600
HeaderHeight == 70

\* the offsets the three highlighters add
ActiveOffsetApp == 50
ActiveOffsetPart001 == 60
ActiveOffsetPart000 == 100
\* window.scrollY beyond which the header is marked scrolled
ScrolledAfter == 50

SectionIdx(p) == 1 .. p.nSections
LinkIdx(p) == 1 .. Len(p.links)

\* section.offsetTop
SectionTop(p, k) == p.firstTop + (k - 1) * (SectionHeight + p.gap)

\* The test each highlighter applies to section k at scroll position y.
\* getBoundingClientRect().top is offsetTop - scrollY.
Qualifies(v, p, y, k) ==
    IF v = "part_000"
    THEN /\ y + ActiveOffsetPart000 >= SectionTop(p, k)
         /\ y + ActiveOffsetPart000 < SectionTop(p, k) + SectionHeight
    ELSE IF v = "app"
    THEN SectionTop(p, k) - y < HeaderHeight + ActiveOffsetApp
    ELSE SectionTop(p, k) - y < HeaderHeight + ActiveOffsetPart001

\* The last section in document order that qualifies, 0 if none does
\* (currentSectionId = '' / current = '').
LastQualifying(v, p, y) ==
    IF \E k \in SectionIdx(p) : Qualifies(v, p, y, k)
    THEN CHOOSE k \in SectionIdx(p) :
            /\ Qualifies(v, p, y, k)
            /\ \A j \in SectionIdx(p) : Qualifies(v, p, y, j) => j <= k
    ELSE 0

\* The links whose href is "#" followed by the id of section k; with k = 0
\* the id is the empty string and the href compared with is "#".
LinksTo(p, k) == { l \in LinkIdx(p) : p.links[l] = k }

\* setActiveLink of part_000: unmark every link, mark those that match
setActiveLink(p, n, k) == [n EXCEPT !.active = LinksTo(p, k)]

\* updateActiveLink / updateActive at the current scroll position.
\* part_000 calls setActiveLink once per qualifying section, so the last
\* call wins and nothing changes when no section qualifies; app.js and
\* part_001 toggle every link against the last qualifying id.
updateActiveLink(v, p, n) ==
    LET y == n.scrollY
        k == LastQualifying(v, p, y)
        m == [n EXCEPT !.computedAt = y,
                       !.sinceFrame = Min(@ + 1, 2),
                       !.sinceTimeout = Min(@ + 1, 2)]
    IN IF v = "part_000"
       THEN IF k = 0 THEN m ELSE setActiveLink(p, m, k)
       ELSE [m EXCEPT !.active = LinksTo(p, k)]

\* header.classList.toggle('scrolled', window.scrollY > 50)
handleHeaderScroll(n) == [n EXCEPT !.scrolled = (n.scrollY > ScrolledAfter)]

\* Faulty variant of scrollListener: never raises the throttle flags.
scrollListener_noFlag(v, p, n) ==
    IF v = "part_000"
    THEN updateActiveLink(v, p,
            IF p.hasHeader THEN handleHeaderScroll(n) ELSE n)
    ELSE IF v = "app"
    THEN IF ~p.hasHeader THEN n
         ELSE updateActiveLink(v, p, handleHeaderScroll(n))
    ELSE n

\* The scroll listeners, run after window.scrollY has changed.
\* part_000 has two throttled listeners (header, then links); app.js has
\* one throttled listener whose body fails at header.classList when there
\* is no #header, before the flag is raised; part_001 asks for a frame
\* unless one is already asked for.
scrollListener(v, p, n) ==
    IF v = "part_000"
    THEN LET h == IF n.inThrottleHeader THEN n
                  ELSE [(IF p.hasHeader THEN handleHeaderScroll(n) ELSE n)
                           EXCEPT !.inThrottleHeader = TRUE]
         IN IF h.inThrottle THEN h
            ELSE [updateActiveLink(v, p, h) EXCEPT !.inThrottle = TRUE]
    ELSE IF v = "app"
    THEN IF n.inThrottle \/ ~p.hasHeader THEN n
         ELSE [updateActiveLink(v, p, handleHeaderScroll(n))
                  EXCEPT !.inThrottle = TRUE]
    ELSE IF n.ticking THEN n
         ELSE [n EXCEPT !.ticking = TRUE]

\* The frame callback the scroll listener of part_001 asked for.
scrollFrame(v, p, n) ==
    [updateActiveLink(v, p, handleHeaderScroll(n)) EXCEPT !.ticking = FALSE]

(***************************************************************************)
(* The mobile menu. showMenu is the 'show-menu' class of #nav-menu,        *)
(* toggleActive the 'active' class of #nav-toggle, isMenuOpen the flag     *)
(* only part_000 keeps. body is document.body.style.overflow, which the    *)
(* menu of part_000 shares with the dialog. Each operator gives the        *)
(* navigation state, the body's overflow and whether the handler threw.    *)
(***************************************************************************)
MenuResult(n, body, threw) == [nav |-> n, body |-> body, threw |-> threw]

\* Faulty variant of toggleMenu: adds the class whatever the flag says.
toggleMenu_addsClass(p, n, body) ==
    IF ~p.hasNavMenu
    THEN MenuResult([n EXCEPT !.isMenuOpen = ~n.isMenuOpen], body, TRUE)
    ELSE MenuResult([n EXCEPT !.isMenuOpen = ~n.isMenuOpen,
                              !.showMenu = TRUE,
                              !.toggleActive = ~n.isMenuOpen],
                    IF ~n.isMenuOpen THEN "hidden" ELSE "", FALSE)

\* Navigation.toggleMenu (part_000): the flag flips first; the classes and
\* the body's overflow follow it. Without #nav-menu the class write throws
\* with the flag already flipped. Only #nav-toggle's listener calls it.
toggleMenu(p, n, body) ==
    IF ~p.hasNavMenu
    THEN MenuResult([n EXCEPT !.isMenuOpen = ~n.isMenuOpen], body, TRUE)
    ELSE MenuResult([n EXCEPT !.isMenuOpen = ~n.isMenuOpen,
                              !.showMenu = ~n.isMenuOpen,
                              !.toggleActive = ~n.isMenuOpen],
                    IF ~n.isMenuOpen THEN "hidden" ELSE "", FALSE)

\* Navigation.closeMenu (part_000): flag, classes, then the body's overflow
\* is cleared. A missing #nav-menu or
\* #nav-toggle makes the class write throw before the overflow is reached.
closeMenu(p, n, body) ==
    IF ~p.hasNavMenu
    THEN MenuResult([n EXCEPT !.isMenuOpen = FALSE], body, TRUE)
    ELSE IF ~p.hasNavToggle
    THEN MenuResult([n EXCEPT !.isMenuOpen = FALSE, !.showMenu = FALSE],
                    body, TRUE)
    ELSE MenuResult([n EXCEPT !.isMenuOpen = FALSE, !.showMenu = FALSE,
                              !.toggleActive = FALSE], "", FALSE)

\* The click listener part_000 puts on the document: with the flag set, a
\* click outside #nav-menu and #nav-toggle closes the menu. The two
\* contains() calls throw on a missing element.
documentClick(v, p, n, body, inMenu, inToggle) ==
    IF v # "part_000" \/ ~n.docBound \/ ~n.isMenuOpen
    THEN MenuResult(n, body, FALSE)
    ELSE IF ~p.hasNavMenu THEN MenuResult(n, body, TRUE)
    ELSE IF inMenu THEN MenuResult(n, body, FALSE)
    ELSE IF ~p.hasNavToggle THEN MenuResult(n, body, TRUE)
    ELSE IF inToggle THEN MenuResult(n, body, FALSE)
    ELSE closeMenu(p, n, body)

\* click on #nav-toggle: part_000 toggles; the other two add the class.
\* The click then reaches the document's listener (target in the toggle).
navToggleClick(v, p, n, body) ==
    IF v = "part_000"
    THEN LET r == toggleMenu(p, n, body)
         IN  documentClick(v, p, r.nav, r.body, FALSE, TRUE)
    ELSE IF ~p.hasNavMenu THEN MenuResult(n, body, TRUE)
    ELSE MenuResult([n EXCEPT !.showMenu = TRUE], body, FALSE)

\* click on #nav-close (an element of the menu)
navCloseClick(v, p, n, body) ==
    IF v = "part_000"
    THEN LET r == closeMenu(p, n, body)
         IN  documentClick(v, p, r.nav, r.body, TRUE, FALSE)
    ELSE IF ~p.hasNavMenu THEN MenuResult(n, body, TRUE)
    ELSE MenuResult([n EXCEPT !.showMenu = FALSE], body, FALSE)

\* click on a .nav__link whose href starts with '#' (an element of the
\* menu): the menu closes; the smooth scroll it starts arrives as scroll
\* events of its own.
navLinkClick(v, p, n, body) ==
    IF v = "part_000"
    THEN LET r == closeMenu(p, n, body)
         IN  documentClick(v, p, r.nav, r.body, TRUE, FALSE)
    ELSE IF ~p.hasNavMenu THEN MenuResult(n, body, TRUE)
    ELSE MenuResult([n EXCEPT !.showMenu = FALSE], body, FALSE)

\* What Navigation.init binds of the menu: part_000 tests each control
\* and always listens on the document; the other two have no document
\* listener.
bindMenu(v, p, n) ==
    [n EXCEPT !.toggleBound = p.hasNavToggle,
              !.closeBound = p.hasNavClose,
              !.linkBound = p.links # << >>,
              !.docBound = (v = "part_000")]

\* Navigation.init as far as the scroll handling goes. part_000 also marks
\* the link of location.hash || '#home'; part_001 binds nothing without
\* #header or #nav-menu.
Navigation_init(v, p, n) ==
    IF v = "part_000"
    THEN [ nav |-> [setActiveLink(p, bindMenu(v, p, n),
                                  IF p.hash = 0 THEN 1 ELSE p.hash)
                       EXCEPT !.bound = TRUE],
           threw |-> FALSE ]
    ELSE IF v = "part_001" /\ (~p.hasHeader \/ ~p.hasNavMenu)
    THEN [nav |-> n, threw |-> FALSE]
    ELSE [nav |-> [bindMenu(v, p, n) EXCEPT !.bound = TRUE], threw |-> FALSE]

(***************************************************************************)
(* Modal: the consultation dialog. hidden is the dialog's 'hidden' class,  *)
(* aria its aria-hidden attribute, overflow document.body.style.overflow.  *)
(***************************************************************************)
\* openModal / open. Only part_001 writes aria-hidden; app.js leaves the
\* body's overflow alone; part_000 also sets a 100 ms timeout that focuses
\* the dialog's first input.
openModal(v, p, m) ==
    IF v = "part_000"
    THEN IF ~p.hasModal THEN m
         ELSE [m EXCEPT !.hidden = FALSE, !.overflow = "hidden",
                        !.focusTimer = @ \/ p.hasModalInput]
    ELSE IF v = "app" THEN [m EXCEPT !.hidden = FALSE]
    ELSE [m EXCEPT !.hidden = FALSE, !.aria = "false",
                   !.overflow = "hidden"]

\* closeModal / close
closeModal(v, p, m) ==
    IF v = "part_000"
    THEN IF ~p.hasModal THEN m
         ELSE [m EXCEPT !.hidden = TRUE, !.overflow = ""]
    ELSE IF v = "app" THEN [m EXCEPT !.hidden = TRUE]
    ELSE [m EXCEPT !.hidden = TRUE, !.aria = "true", !.overflow = ""]

\* click on the dialog: the listener closes it when the target is the
\* dialog container itself
modalClick(v, p, m, target) ==
    IF target = "modal" THEN closeModal(v, p, m) ELSE m

\* keydown on the document. part_001 closes on every Escape; the other two
\* only while the dialog is not hidden.
keyDown(v, p, m, key) ==
    IF key # "Escape" THEN m
    ELSE IF v = "part_001" THEN closeModal(v, p, m)
    ELSE IF p.hasModal /\ ~m.hidden THEN closeModal(v, p, m)
    ELSE m

\* Modal.init: app.js and part_001 bind nothing without the dialog;
\* part_000 binds the open buttons and the key listener in any case.
Modal_init(v, p, m) ==
    IF v # "part_000" /\ ~p.hasModal THEN [modal |-> m, threw |-> FALSE]
    ELSE [ modal |-> [m EXCEPT !.openBound = p.hasOpenButtons,
                               !.closeBound = p.hasCloseButton,
                               !.clickBound = p.hasModal,
                               !.keyBound = TRUE],
           threw |-> FALSE ]

(***************************************************************************)
(* Forms: #consultation-form and #contact-form. part_000 handles them in   *)
(* Modal and ContactForm and only simulates the submission; app.js and     *)
(* part_001 handle both in FormHandler and POST to Web3Forms. The form has *)
(* one field marked required and one that is not; the fields part_000      *)
(* requires by name are taken to be the ones the markup marks required.    *)
(***************************************************************************)
\* value.trim() is empty
Blank(c) == c \in {"empty", "spaces"}

\* form.reset(): every field back to its default value
resetFields(f) == [f EXCEPT !.required = "empty", !.optional = "empty"]

\* the label part_000 writes back after its simulated submission
RestoredLabel(p) ==
    IF p.formKind = "consultation" THEN "Schedule Consultation"
    ELSE "Send Message"

\* showFormError / showFormSuccess / showMessage of part_000: the message
\* element replaces the one shown; ContactForm also sets a 5 s timeout
\* that removes the element it inserted.
showMessage(p, f, type) ==
    [f EXCEPT !.message = type, !.messageTimer = (p.formKind = "contact")]

\* The submit listener, up to its first await (app.js, part_001) or to its
\* end (part_000).
submitHandler(v, p, f) ==
    IF v = "part_000"
    THEN IF Blank(f.required)
         THEN [showMessage(p, f, "error") EXCEPT !.result = "rejected"]
         ELSE IF ~p.hasSubmitButton
         THEN [f EXCEPT !.simTimers = @ + 1, !.result = "accepted"]
         ELSE [f EXCEPT !.label = "Sending...", !.disabled = TRUE,
                        !.simTimers = @ + 1, !.result = "accepted"]
    ELSE IF v = "app"
    THEN IF ~p.keyConfigured THEN [f EXCEPT !.result = "alert"]
         ELSE IF ~p.hasSubmitButton THEN [f EXCEPT !.result = "threw"]
         ELSE [f EXCEPT !.captured = Append(@, f.label),
                        !.disabled = TRUE, !.label = "Sending...",
                        !.inflight = @ + 1, !.posts = Min(@ + 1, 2),
                        !.result = "posted"]
    ELSE IF ~p.keyConfigured THEN [f EXCEPT !.result = "alert"]
    ELSE IF Blank(f.required) THEN [f EXCEPT !.result = "alert"]
    ELSE IF ~p.hasSubmitButton THEN [f EXCEPT !.result = "threw"]
    ELSE [f EXCEPT !.captured = Append(@, "Submit"),
                   !.disabled = TRUE, !.label = "Sending...",
                   !.inflight = @ + 1, !.posts = Min(@ + 1, 2),
                   !.result = "posted"]

\* Faulty variant of responseHandler: form.reset() on every outcome
responseHandler_resetAlways(v, p, f, outcome) ==
    LET g == IF outcome = "success"
             THEN [resetFields(f) EXCEPT !.label = "Sent Successfully!"]
             ELSE [resetFields(f) EXCEPT
                      !.label = IF v = "app" THEN "Error! Try Again."
                                ELSE "Error! Try Again"]
    IN [g EXCEPT !.inflight = @ - 1,
                 !.captured = Tail(@),
                 !.resetTimers = Append(@, Head(f.captured)),
                 !.result = outcome]

\* The rest of the listener once the fetch has settled; outcome is
\* "success" (the body says success: true), "failure" (success is false)
\* or "error" (the fetch or the parsing of the body failed). The finally
\* block sets the 4 s timeout with the label it will write: app.js the
\* innerHTML read at the submit, part_001 the text 'Submit'.
responseHandler(v, p, f, outcome) ==
    LET g == IF outcome = "success"
             THEN [resetFields(f) EXCEPT !.label = "Sent Successfully!"]
             ELSE [f EXCEPT !.label = IF v = "app" THEN "Error! Try Again."
                                      ELSE "Error! Try Again"]
    IN [g EXCEPT !.inflight = @ - 1,
                 !.captured = Tail(@),
                 !.resetTimers = Append(@, Head(f.captured)),
                 !.result = outcome]

\* The 4 s timeout of the finally block expires.
resetTimeout(f) ==
    [f EXCEPT !.disabled = FALSE, !.label = Head(f.resetTimers),
              !.resetTimers = Tail(@)]

\* The 1.5 s timeout of part_000's simulated submission expires.
simTimeout(p, f) ==
    LET g == [resetFields(showMessage(p, f, "success"))
                 EXCEPT !.simTimers = @ - 1, !.result = "simulated"]
    IN IF p.hasSubmitButton
       THEN [g EXCEPT !.label = RestoredLabel(p), !.disabled = FALSE]
       ELSE g

\* The submit listener is attached when the page has a form of one of
\* the kinds the module looks up.
Form_init(p, f, kinds) == [f EXCEPT !.bound = @ \/ p.formKind \in kinds]

(***************************************************************************)
(* The POST body (FormHandler of app.js and part_001). The form data is a  *)
(* sequence of name/value entries in document order; the configured token  *)
(* is a key, app.js's placeholder 'YOUR_ACCESS_KEY_HERE' or the empty      *)
(* string.                                                                 *)
(***************************************************************************)
FieldNames == {"name", "email", "access_key"}

FieldValues == {"a", "b"}

Tokens == {"key", "placeholder", "empty"}

\* Object.fromEntries: one property per name, a later entry replacing an
\* earlier one of the same name
RECURSIVE fromEntries(_)
fromEntries(es) ==
    IF es = << >> THEN [n \in FieldNames |-> "absent"]
    ELSE LET k == Len(es)
         IN [fromEntries(SubSeq(es, 1, k - 1)) EXCEPT
                ![es[k].name] = es[k].value]

\* the listener's check of the configured token: app.js compares it with
\* the placeholder, part_001 tests that it is not empty
tokenMissing(v, t) ==
    IF v = "app" THEN t = "placeholder" ELSE t = "empty"

\* The object handed to JSON.stringify: app.js appends access_key to the
\* form data before Object.fromEntries, part_001 spreads the entries and
\* then sets access_key.
postBody(v, es, t) ==
    IF v = "app"
    THEN fromEntries(Append(es, [name |-> "access_key", value |-> t]))
    ELSE [fromEntries(es) EXCEPT !["access_key"] = t]

\* One submit event of a valid form, up to the fetch call. part_000 only
\* simulates the submission.
submitPost(v, q) ==
    IF v = "part_000" THEN [q EXCEPT !.done = TRUE]
    ELSE IF tokenMissing(v, q.token)
    THEN [q EXCEPT !.done = TRUE, !.alerted = TRUE]
    ELSE [q EXCEPT !.done = TRUE, !.sent = TRUE,
                   !.body = postBody(v, q.entries, q.token)]

(***************************************************************************)
(* ScrollAnimations: one observer for all selected elements; the callback  *)
(* applies the fade-in to every intersecting entry's target and stops      *)
(* observing it. A batch holds at most one entry per observed element and  *)
(* is a function from the elements notified to isIntersecting.             *)
(***************************************************************************)
AnimIdx(p) == 1 .. p.nAnimEls

\* Faulty variant of animCallback: the target stays observed
animCallback_noUnobserve(a, b) ==
    [a EXCEPT !.applied = [e \in DOMAIN @ |->
                              IF e \in DOMAIN b /\ b[e]
                              THEN Min(@[e] + 1, 2) ELSE @[e]]]

\* the observer callback
animCallback(a, b) ==
    [a EXCEPT !.applied = [e \in DOMAIN @ |->
                              IF e \in DOMAIN b /\ b[e]
                              THEN Min(@[e] + 1, 2) ELSE @[e]],
              !.observed = @ \ {e \in DOMAIN b : b[e]}]

\* new IntersectionObserver(...) where the constructor is undefined
ScrollAnimations_throws(v, p) ==
    v # "part_000" /\ p.hasAnimEls /\ ~p.hasIO

\* ScrollAnimations.init
ScrollAnimations_init(v, p, a) ==
    IF ScrollAnimations_throws(v, p) THEN [anim |-> a, threw |-> TRUE]
    ELSE IF ~p.hasAnimEls \/ ~p.hasIO THEN [anim |-> a, threw |-> FALSE]
    ELSE [ anim |-> [a EXCEPT !.bound = TRUE, !.observed = AnimIdx(p)],
           threw |-> FALSE ]

(***************************************************************************)
(* SwiperCarousels (app.js, part_001): the third-party library is used     *)
(* only when the global Swiper is defined.                                 *)
(***************************************************************************)
\* Faulty variant of SwiperCarousels_init: no typeof test, new Swiper
\* raises a ReferenceError when the global is not defined
SwiperCarousels_init_noGuard(v, p, n) ==
    IF ~p.hasSwiper THEN [swipers |-> n, threw |-> TRUE]
    ELSE [swipers |-> Min(n + 2, 4), threw |-> FALSE]

\* SwiperCarousels.init: two instances (.team-carousel and
\* .clients-carousel); n is the number of instances so far
SwiperCarousels_init(v, p, n) ==
    IF ~p.hasSwiper THEN [swipers |-> n, threw |-> FALSE]
    ELSE [swipers |-> Min(n + 2, 4), threw |-> FALSE]

(***************************************************************************)
(* App controller: the module list and the runner.                         *)
(***************************************************************************)
Modules(v) ==
    IF v = "part_000"
    THEN << "Navigation", "ThemeToggle", "StatsCounter",
            "TestimonialsCarousel", "Modal", "ContactForm",
            "ScrollAnimations" >>
    ELSE IF v = "app"
    THEN << "LoadingScreen", "Navigation", "ThemeToggle", "StatsCounter",
            "TestimonialsCarousel", "SwiperCarousels", "Modal",
            "FormHandler", "ScrollAnimations" >>
    ELSE << "LoadingScreen", "Navigation", "ThemeToggle", "StatsCounter",
            "SwiperCarousels", "Modal", "FormHandler", "CardFlipper",
            "ScrollAnimations" >>

\* The runner of part_000 and of app.js wraps each init in try/catch;
\* part_001 calls m.init?.() bare inside forEach.
RunnerCatches(v) == v \in {"part_000", "app"}

\* The feature state st with the outcome of one init.
Outcome(st, threw) ==
    [ theme |-> st.theme, car |-> st.car, stats |-> st.stats,
      nav |-> st.nav, modal |-> st.modal, form |-> st.form,
      anim |-> st.anim, swipers |-> st.swipers,
      threw |-> threw ]

\* One module's init applied to the feature state: the state after it and
\* whether an error left it.
ModuleInit(v, m, p, st) ==
    IF m = "ThemeToggle"
    THEN LET r == ThemeToggle_init(v, p, st.theme) IN
         [Outcome(st, r.threw) EXCEPT !.theme = r.theme]
    ELSE IF m = "TestimonialsCarousel"
    THEN LET r == TestimonialsCarousel_init(v, p, st.car) IN
         [Outcome(st, r.threw) EXCEPT !.car = r.car]
    ELSE IF m = "StatsCounter"
    THEN LET r == StatsCounter_init(v, p, st.stats) IN
         [Outcome(st, r.threw) EXCEPT !.stats = r.stats]
    ELSE IF m = "Navigation"
    THEN LET r == Navigation_init(v, p, st.nav) IN
         [Outcome(st, r.threw) EXCEPT !.nav = r.nav]
    ELSE IF m = "Modal"
    THEN LET r == Modal_init(v, p, st.modal) IN
         [Outcome(st, r.threw) EXCEPT
             !.modal = r.modal,
             !.form = IF v = "part_000"
                      THEN Form_init(p, @, {"consultation"}) ELSE @]
    ELSE IF m = "ContactForm"
    THEN [Outcome(st, FALSE) EXCEPT !.form = Form_init(p, @, {"contact"})]
    ELSE IF m = "FormHandler"
    THEN [Outcome(st, FALSE) EXCEPT
             !.form = Form_init(p, @, {"consultation", "contact"})]
    ELSE IF m = "ScrollAnimations"
    THEN LET r == ScrollAnimations_init(v, p, st.anim) IN
         [Outcome(st, r.threw) EXCEPT !.anim = r.anim]
    ELSE IF m = "SwiperCarousels"
    THEN LET r == SwiperCarousels_init(v, p, st.swipers) IN
         [Outcome(st, r.threw) EXCEPT !.swipers = r.swipers]
    ELSE Outcome(st, FALSE)

\* this.modules.forEach(...) from module number i on. acc carries the
\* invocation log, the errors caught, the error that escaped (if any) and
\* the feature state.
RECURSIVE RunFrom(_, _, _, _)
RunFrom(v, p, i, acc) ==
    IF i > Len(Modules(v)) THEN acc
    ELSE LET m == Modules(v)[i]
             a(r) == [acc EXCEPT !.log = Append(@, m),
                                 !.theme = r.theme,
                                 !.car = r.car,
                                 !.stats = r.stats,
                                 !.nav = r.nav,
                                 !.modal = r.modal,
                                 !.form = r.form,
                                 !.anim = r.anim,
                                 !.swipers = r.swipers]
             rest(r) ==
                 IF ~r.threw THEN RunFrom(v, p, i + 1, a(r))
                 ELSE IF RunnerCatches(v)
                 THEN RunFrom(v, p, i + 1,
                              [a(r) EXCEPT !.caught = Append(@, m)])
                 ELSE [a(r) EXCEPT !.uncaught = m]
         \* the module's init runs once; r is its outcome
         IN CHOOSE out \in {rest(r) : r \in {ModuleInit(v, m, p, acc)}} : TRUE

\* feat: the feature state the loop starts from
initializeModules(v, p, feat) ==
    RunFrom(v, p, 1, [log |-> << >>, caught |-> << >>, uncaught |-> "none",
                      theme |-> feat.theme, car |-> feat.car,
                      stats |-> feat.stats, nav |-> feat.nav,
                      modal |-> feat.modal, form |-> feat.form,
                      anim |-> feat.anim, swipers |-> feat.swipers])

(***************************************************************************)
(* Initial states.                                                         *)
(***************************************************************************)
Theme0(stored, dark) ==
    [ attr |-> "none", stored |-> stored, systemDark |-> dark,
      icon |-> "none", clickBound |-> FALSE, mediaBound |-> FALSE ]

ThemeHist0 ==
    [ lastOp |-> "none", toggles |-> 0,
      before1 |-> [stored |-> "none", attr |-> "none"],
      before2 |-> [stored |-> "none", attr |-> "none"] ]

\* sa, ba: the active marks the markup carries before any script runs
Car0(sa, ba) ==
    [ currentSlide |-> 0, totalSlides |-> 0,
      slideActive |-> sa, btnActive |-> ba,
      autoplayTimer |-> 0, timers |-> {},
      navBound |-> FALSE, hoverBound |-> FALSE, hovering |-> FALSE,
      shown |-> FALSE, nextInvoked |-> FALSE ]

CarHist0 ==
    [ lastEvent |-> "none", lastClick |-> NaN, prev |-> Car0({}, {}),
      pauseIndex |-> NaN, afterResume |-> FALSE, resumedFire |-> FALSE,
      sinceLast |-> 0, sinceClick |-> IntervalUnits, window |-> << >> ]

\* One counter element as the markup gives it: text is its text content
\* (parseInt(text) || 0), target its data-target.
Counter0(e) ==
    [ text |-> e.text, target |-> e.target, running |-> FALSE,
      start |-> 0, startTime |-> 0, current |-> 0, lastFire |-> 0,
      triggers |-> 0, starts |-> 0,
      calls |-> 0, lastElapsed |-> 0, prevText |-> 0 ]

Stats0(p) ==
    [ observing |-> FALSE, hasAnimated |-> FALSE, pending |-> {},
      counters |-> [i \in 1 .. Len(p.counters) |-> Counter0(p.counters[i])],
      now |-> 0, lastFrame |-> -1,
      visibleReported |-> FALSE, lastEvent |-> "none" ]

\* Navigation before init: the page at its top, the marks of the markup
Nav0(p) ==
    [ bound |-> FALSE, scrollY |-> 0, scrolled |-> FALSE,
      active |-> p.markedLinks,
      inThrottle |-> FALSE, inThrottleHeader |-> FALSE, ticking |-> FALSE,
      computedAt |-> NaN, sinceFrame |-> 0, sinceTimeout |-> 0,
      scrollsSince |-> 0, served |-> 0,
      lastEvent |-> "none",
      isMenuOpen |-> FALSE, showMenu |-> FALSE, toggleActive |-> FALSE,
      toggleBound |-> FALSE, closeBound |-> FALSE, linkBound |-> FALSE,
      docBound |-> FALSE, menuEvent |-> "none" ]

\* The dialog as the markup has it: hidden, body scrolling untouched
Modal0(p) ==
    [ hidden |-> TRUE, aria |-> p.ariaMarkup, overflow |-> "",
      focusTimer |-> FALSE, focused |-> FALSE, closeTimers |-> 0,
      openBound |-> FALSE, closeBound |-> FALSE, clickBound |-> FALSE,
      keyBound |-> FALSE,
      lastEvent |-> "none", wasHidden |-> TRUE ]

\* The form as the markup has it: empty fields, the control enabled
Form0(p) ==
    [ bound |-> FALSE, required |-> "empty", optional |-> "empty",
      disabled |-> FALSE, label |-> p.label,
      inflight |-> 0, posts |-> 0, captured |-> << >>,
      resetTimers |-> << >>, simTimers |-> 0,
      message |-> "none", messageTimer |-> FALSE,
      result |-> "none", lastEvent |-> "none",
      atSubmit |-> [required |-> "empty", optional |-> "empty",
                    label |-> p.label, posts |-> 0,
                    disabled |-> FALSE, pending |-> 0] ]

Runner0 ==
    [ phase |-> "script", readyState |-> "loading",
      log |-> << >>, caught |-> << >>, uncaught |-> "none",
      swipers |-> 0 ]

\* One submission before the submit event
Post0(es, t) ==
    [ entries |-> es, token |-> t, done |-> FALSE, sent |-> FALSE,
      alerted |-> FALSE, body |-> [n \in FieldNames |-> "absent"] ]

\* The elements ScrollAnimations selects, before init; seen holds the
\* elements for which an intersecting entry was delivered.
Anim0(p) ==
    [ bound |-> FALSE, observed |-> {}, applied |-> [e \in AnimIdx(p) |-> 0],
      seen |-> {} ]

\* Pages for the runner: every combination of what can make an init throw.
RunnerPages ==
    { [DefaultPage EXCEPT !.hasToggle = t, !.storageWriteFails = w,
                          !.hasIO = o, !.hasHeroStats = h, !.hasAnimEls = a,
                          !.nSlides = n, !.nButtons = n, !.hasCarousel = c,
                          !.hasSwiper = s, !.nAnimEls = IF a THEN 1 ELSE 0] :
        t \in BOOLEAN, w \in BOOLEAN, o \in BOOLEAN, h \in BOOLEAN,
        a \in BOOLEAN, n \in {0, 2}, c \in BOOLEAN, s \in BOOLEAN }

ThemePages ==
    { [DefaultPage EXCEPT !.hasToggle = t, !.hasIcon = i,
                          !.storageWriteFails = w] :
        t \in BOOLEAN, i \in BOOLEAN, w \in BOOLEAN }

CarouselPages ==
    { [DefaultPage EXCEPT !.nSlides = n, !.nButtons = b, !.hasCarousel = c] :
        n \in 0 .. MaxSlides, b \in 0 .. MaxButtons, c \in BOOLEAN }

\* Text content and data-target the counter elements may carry.
CounterStarts == {0, 100, 120}
CounterTargets == {100}

StatsPages ==
    { [DefaultPage EXCEPT !.hasHeroStats = h, !.hasIO = o, !.counters = cs] :
        h \in BOOLEAN, o \in BOOLEAN,
        cs \in UNION { [1 .. n -> [text : CounterStarts,
                                   target : CounterTargets]] :
                         n \in 0 .. MaxCounters } }

\* The offset the highlighter of version v compares with.
ActiveOffset(v) ==
    IF v = "part_000" THEN ActiveOffsetPart000
    ELSE IF v = "app" THEN HeaderHeight + ActiveOffsetApp
    ELSE HeaderHeight + ActiveOffsetPart001

\* The scroll positions considered: the top of the page, the first
\* position that marks the header, and for each section the positions on
\* either side of where its top passes the offset and of where its bottom
\* does (the page goes on below the last section).
ScrollStops(v, p) ==
    { y \in {0, ScrolledAfter + 1}
           \cup UNION { { SectionTop(p, k) - ActiveOffset(v) + d,
                          SectionTop(p, k) + SectionHeight
                              - ActiveOffset(v) + d - 1 } :
                        k \in SectionIdx(p), d \in {0, 1} } :
        y >= 0 }

\* One link per section, in order, with or without a link whose href is "#"
NavLinks(n) ==
    { [k \in 1 .. n |-> k], [k \in 1 .. n + 1 |-> IF k <= n THEN k ELSE 0] }

\* The markup marks the link of the first section; the URL has no hash.
NavPagesWith(n) ==
    { [DefaultPage EXCEPT !.nSections = n, !.firstTop = t, !.gap = g,
                          !.links = l,
                          !.markedLinks = {1} \cap (1 .. n)] :
        t \in {0, 300}, g \in {0, 150}, l \in NavLinks(n) }

NavPages == UNION { NavPagesWith(n) : n \in 0 .. MaxSections }

\* Pages with the dialog and one form; the dialog has all its controls.
FormPages ==
    LET base == { [DefaultPage EXCEPT !.formKind = k, !.label = l] :
                    k \in {"consultation", "contact"},
                    l \in {"Submit", "Send Message"} }
    IN base
       \cup { [p EXCEPT !.keyConfigured = FALSE] : p \in base }
       \cup { [DefaultPage EXCEPT !.formKind = "contact",
                                  !.label = "Send Message",
                                  !.otherSubmit = TRUE,
                                  !.hasModal = FALSE,
                                  !.hasOpenButtons = FALSE,
                                  !.hasCloseButton = FALSE] }
       \cup { [p EXCEPT !.hasSubmitButton = FALSE] : p \in base }
       \cup { [DefaultPage EXCEPT !.formKind = "consultation",
                                  !.ariaMarkup = "none"] }

\* Form data of up to MaxFields entries
PostEntries ==
    UNION { [1 .. k -> [name : FieldNames, value : FieldValues]] :
              k \in 0 .. MaxFields }

PostPage == [DefaultPage EXCEPT !.formKind = "contact"]

AnimPages ==
    { [DefaultPage EXCEPT !.hasAnimEls = (n > 0), !.nAnimEls = n,
                          !.hasIO = o] :
        n \in 0 .. MaxAnimEls, o \in BOOLEAN }

InitRunner ==
    /\ ver \in Versions
    /\ page \in RunnerPages
    /\ runner = Runner0
    /\ theme = Theme0("none", FALSE)
    /\ themeHist = ThemeHist0
    /\ car = Car0({}, {})
    /\ carHist = CarHist0
    /\ stats = Stats0(page)
    /\ nav = Nav0(page)
    /\ modal = Modal0(page)
    /\ form = Form0(page)
    /\ post = Post0(<< >>, "key")
    /\ anim = Anim0(page)

InitTheme ==
    /\ ver \in Versions
    /\ page \in ThemePages
    /\ runner = Runner0
    /\ \E s \in Themes \cup {"none"}, d \in BOOLEAN : theme = Theme0(s, d)
    /\ themeHist = ThemeHist0
    /\ car = Car0({}, {})
    /\ carHist = CarHist0
    /\ stats = Stats0(page)
    /\ nav = Nav0(page)
    /\ modal = Modal0(page)
    /\ form = Form0(page)
    /\ post = Post0(<< >>, "key")
    /\ anim = Anim0(page)

InitCarousel ==
    /\ ver \in {"part_000", "app"}
    /\ page \in CarouselPages
    /\ runner = Runner0
    /\ theme = Theme0("none", FALSE)
    /\ themeHist = ThemeHist0
    /\ \E sa \in SUBSET SlideIdx(page), ba \in SUBSET ButtonIdx(page) :
           car = Car0(sa, ba)
    /\ carHist = CarHist0
    /\ stats = Stats0(page)
    /\ nav = Nav0(page)
    /\ modal = Modal0(page)
    /\ form = Form0(page)
    /\ post = Post0(<< >>, "key")
    /\ anim = Anim0(page)

InitStats ==
    /\ ver \in Versions
    /\ page \in StatsPages
    /\ runner = Runner0
    /\ theme = Theme0("none", FALSE)
    /\ themeHist = ThemeHist0
    /\ car = Car0({}, {})
    /\ carHist = CarHist0
    /\ stats = Stats0(page)
    /\ nav = Nav0(page)
    /\ modal = Modal0(page)
    /\ form = Form0(page)
    /\ post = Post0(<< >>, "key")
    /\ anim = Anim0(page)

\* Pages for the menu: each of its three elements present or not, one
\* link with the bare href "#" or none, and the dialog with its controls.
MenuPages ==
    { [DefaultPage EXCEPT !.hasNavMenu = a, !.hasNavToggle = b,
                          !.hasNavClose = c, !.links = l,
                          !.hasModalInput = FALSE] :
        a \in BOOLEAN, b \in BOOLEAN, c \in BOOLEAN, l \in {<< >>, <<0>>} }

InitMenu ==
    /\ ver \in Versions
    /\ page \in MenuPages
    /\ runner = Runner0
    /\ theme = Theme0("none", FALSE)
    /\ themeHist = ThemeHist0
    /\ car = Car0({}, {})
    /\ carHist = CarHist0
    /\ stats = Stats0(page)
    /\ nav = Nav0(page)
    /\ modal = Modal0(page)
    /\ form = Form0(page)
    /\ post = Post0(<< >>, "key")
    /\ anim = Anim0(page)

InitNav ==
    /\ ver \in Versions
    /\ page \in NavPages
    /\ runner = Runner0
    /\ theme = Theme0("none", FALSE)
    /\ themeHist = ThemeHist0
    /\ car = Car0({}, {})
    /\ carHist = CarHist0
    /\ stats = Stats0(page)
    /\ nav = Nav0(page)
    /\ modal = Modal0(page)
    /\ form = Form0(page)
    /\ post = Post0(<< >>, "key")
    /\ anim = Anim0(page)

InitForms ==
    /\ ver \in Versions
    /\ page \in FormPages
    /\ runner = Runner0
    /\ theme = Theme0("none", FALSE)
    /\ themeHist = ThemeHist0
    /\ car = Car0({}, {})
    /\ carHist = CarHist0
    /\ stats = Stats0(page)
    /\ nav = Nav0(page)
    /\ modal = Modal0(page)
    /\ form = Form0(page)
    /\ post = Post0(<< >>, "key")
    /\ anim = Anim0(page)

InitPost ==
    /\ ver \in Versions
    /\ page = PostPage
    /\ runner = Runner0
    /\ theme = Theme0("none", FALSE)
    /\ themeHist = ThemeHist0
    /\ car = Car0({}, {})
    /\ carHist = CarHist0
    /\ stats = Stats0(page)
    /\ nav = Nav0(page)
    /\ modal = Modal0(page)
    /\ form = Form0(page)
    /\ post \in {Post0(es, t) : es \in PostEntries, t \in Tokens}
    /\ anim = Anim0(page)

InitAnim ==
    /\ ver \in Versions
    /\ page \in AnimPages
    /\ runner = Runner0
    /\ theme = Theme0("none", FALSE)
    /\ themeHist = ThemeHist0
    /\ car = Car0({}, {})
    /\ carHist = CarHist0
    /\ stats = Stats0(page)
    /\ nav = Nav0(page)
    /\ modal = Modal0(page)
    /\ form = Form0(page)
    /\ post = Post0(<< >>, "key")
    /\ anim = Anim0(page)

(***************************************************************************)
(* Actions. Each is one callback run to completion on the UI thread.       *)
(***************************************************************************)
\* The state after the module loop has run on the current feature state;
\* rs is the document's readyState by then.
ModulesRun(rs) ==
    LET acc == initializeModules(ver, page,
                                 [theme |-> theme, car |-> car,
                                  stats |-> stats, nav |-> nav,
                                  modal |-> modal, form |-> form,
                                  anim |-> anim,
                                  swipers |-> runner.swipers])
        ran(m) == \E k \in 1 .. Len(acc.log) : acc.log[k] = m
    IN
    /\ runner' = [runner EXCEPT !.phase = "ran", !.readyState = rs,
                                !.log = acc.log,
                                !.caught = acc.caught,
                                !.uncaught = acc.uncaught,
                                !.swipers = acc.swipers]
    /\ theme' = acc.theme
    /\ car' = acc.car
    /\ stats' = [acc.stats EXCEPT !.lastEvent =
                     IF ran("StatsCounter") THEN "init" ELSE @]
    /\ nav' = [acc.nav EXCEPT !.lastEvent =
                   IF ran("Navigation") THEN "init" ELSE @]
    /\ modal' = [acc.modal EXCEPT !.lastEvent =
                     IF ran("Modal") THEN "init" ELSE @]
    /\ form' = acc.form
    /\ anim' = acc.anim
    /\ themeHist' = IF ran("ThemeToggle")
                    THEN [themeHist EXCEPT !.lastOp = "init"]
                    ELSE themeHist
    /\ carHist' = IF ran("TestimonialsCarousel")
                  THEN [carHist EXCEPT !.lastEvent = "init", !.prev = car]
                  ELSE carHist

\* The script executes: App.init(). part_000 tests document.readyState;
\* app.js and part_001 only register a DOMContentLoaded listener.
AppInit ==
    /\ runner.phase = "script"
    /\ IF ver = "part_000" /\ runner.readyState # "loading"
       THEN ModulesRun(runner.readyState)
       ELSE /\ runner' = [runner EXCEPT !.phase = "waiting"]
            /\ UNCHANGED <<theme, themeHist, car, carHist, stats, nav, modal,
                           form, anim>>
    /\ UNCHANGED <<ver, page, post>>

\* The document's DOMContentLoaded event (dispatched once).
DOMContentLoaded ==
    /\ runner.readyState = "loading"
    /\ IF runner.phase = "waiting"
       THEN ModulesRun("interactive")
       ELSE /\ runner' = [runner EXCEPT !.readyState = "interactive"]
            /\ UNCHANGED <<theme, themeHist, car, carHist, stats, nav, modal,
                           form, anim>>
    /\ UNCHANGED <<ver, page, post>>

ToggleClick ==
    /\ theme.clickBound
    /\ theme' = toggleTheme(ver, page, theme)
    /\ themeHist' = [ lastOp |-> "toggle",
                      toggles |-> Min(themeHist.toggles + 1, 2),
                      before1 |-> [stored |-> theme.stored,
                                   attr |-> theme.attr],
                      before2 |-> themeHist.before1 ]
    /\ UNCHANGED <<ver, page, runner, car, carHist, stats, nav, modal, form,
                   post, anim>>

SystemPrefChange ==
    /\ theme' = systemChange(ver, page, theme)
    /\ themeHist' = [themeHist EXCEPT !.lastOp = "system", !.toggles = 0]
    /\ UNCHANGED <<ver, page, runner, car, carHist, stats, nav, modal, form,
                   post, anim>>

NavClick(i) ==
    /\ car.navBound
    /\ i \in ButtonIdx(page)
    /\ car' = navClick(ver, page, car, i)
    /\ carHist' = [carHist EXCEPT !.lastEvent = "click", !.lastClick = i,
                                  !.prev = car, !.afterResume = FALSE,
                                  !.resumedFire = FALSE, !.sinceLast = 0,
                                  !.sinceClick = 0, !.window = << >>]
    /\ UNCHANGED <<ver, page, runner, theme, themeHist, stats, nav, modal,
                   form, post, anim>>

MouseEnter ==
    /\ car.hoverBound /\ ~car.hovering
    /\ car' = mouseEnter(ver, page, car)
    /\ carHist' = [carHist EXCEPT !.lastEvent = "enter", !.prev = car,
                                  !.pauseIndex = car.currentSlide,
                                  !.afterResume = FALSE,
                                  !.resumedFire = FALSE, !.sinceLast = 0]
    /\ UNCHANGED <<ver, page, runner, theme, themeHist, stats, nav, modal,
                   form, post, anim>>

MouseLeave ==
    /\ car.hoverBound /\ car.hovering
    /\ car' = mouseLeave(ver, page, car)
    /\ carHist' = [carHist EXCEPT !.lastEvent = "leave", !.prev = car,
                                  !.afterResume = (carHist.lastEvent = "enter"),
                                  !.resumedFire = FALSE, !.sinceLast = 0]
    /\ UNCHANGED <<ver, page, runner, theme, themeHist, stats, nav, modal,
                   form, post, anim>>

\* One unit of time passes; a due timer fires before time goes on.
Tick ==
    /\ runner.phase = "ran"
    /\ \A x \in car.timers : x.t < IntervalUnits
    /\ car' = elapse(car)
    /\ carHist' = [carHist EXCEPT
                      !.sinceLast = Min(@ + 1, IntervalUnits),
                      !.sinceClick = Min(@ + 1, IntervalUnits)]
    /\ UNCHANGED <<ver, page, runner, theme, themeHist, stats, nav, modal,
                   form, post, anim>>

\* The window keeps the indices shown by the latest successive next()
\* calls, the index they started from first, at most nSlides + 1 of them.
Slide(w, x, n) ==
    LET a == Append(IF w = << >> THEN << x[1] >> ELSE w, x[2]) IN
    IF Len(a) > n + 1 THEN Tail(a) ELSE a

TimerFire(h) ==
    /\ \E x \in car.timers : x.h = h /\ x.t = IntervalUnits
    /\ car' = timerFire(ver, page, car, h)
    /\ carHist' = [carHist EXCEPT
                      !.lastEvent = "fire", !.prev = car,
                      !.resumedFire = carHist.afterResume,
                      !.afterResume = FALSE, !.sinceLast = 0,
                      !.window = Slide(@, << car.currentSlide,
                                             car'.currentSlide >>,
                                       page.nSlides)]
    /\ UNCHANGED <<ver, page, runner, theme, themeHist, stats, nav, modal,
                   form, post, anim>>

\* The last instant the counter clock reaches.
MaxNow == DurationUnits + 2

\* Counter d after a callback that found it as c, elapsed e after its
\* animation started (observation only).
Observed(c, d, e) ==
    [d EXCEPT !.calls = Min(c.calls + 1, 2), !.lastElapsed = e,
              !.prevText = c.text]

\* The observer's callback is handed a batch of entries.
Notify(entries) ==
    /\ stats.observing
    /\ stats' = [observerCallback(ver, stats, entries) EXCEPT
                    !.visibleReported =
                        @ \/ \E k \in 1 .. Len(entries) : entries[k],
                    !.lastEvent = "notify"]
    /\ UNCHANGED <<ver, page, runner, theme, themeHist, car, carHist, nav,
                   modal, form, post, anim>>

\* The earliest of the staggered timeouts expires.
StartTimeout ==
    /\ stats.pending # {}
    /\ LET i == CHOOSE j \in stats.pending :
                    \A k \in stats.pending : j <= k
       IN stats' = [startTimeout(ver, stats, i) EXCEPT
                       !.lastEvent = "timeout"]
    /\ UNCHANGED <<ver, page, runner, theme, themeHist, car, carHist, nav,
                   modal, form, post, anim>>

\* The display redraws: every requested frame callback runs with the
\* frame's timestamp ts. Timestamps never decrease; a frame's timestamp
\* may be earlier than a performance.now() read before its callbacks ran.
Frame(ts) ==
    /\ \E i \in CounterIdx(stats) : stats.counters[i].running
    /\ ver # "part_000"
    /\ ts \in {stats.now - 1, stats.now}
    /\ ts >= stats.lastFrame
    /\ stats' = [stats EXCEPT
                    !.counters = [i \in CounterIdx(stats) |->
                        LET c == stats.counters[i] IN
                        IF c.running
                        THEN Observed(c, animate(c, ts), ts - c.startTime)
                        ELSE c],
                    !.lastFrame = ts,
                    !.lastEvent = "frame"]
    /\ UNCHANGED <<ver, page, runner, theme, themeHist, car, carHist, nav,
                   modal, form, post, anim>>

\* The 16 ms interval timer of counter i fires, on time or late. The
\* clock stops counting at MaxNow, which stands for every later time.
IntervalFire(i) ==
    /\ ver = "part_000"
    /\ i \in CounterIdx(stats)
    /\ stats.counters[i].running
    /\ stats.now > stats.counters[i].lastFire \/ stats.now = MaxNow
    /\ stats' = [stats EXCEPT
                    !.counters[i] =
                        Observed(@, intervalCallback(@, stats.now),
                                 stats.now - @.startTime),
                    !.lastEvent = "interval"]
    /\ UNCHANGED <<ver, page, runner, theme, themeHist, car, carHist, nav,
                   modal, form, post, anim>>

\* One unit of time passes on the counter clock.
TimePasses ==
    /\ runner.phase = "ran"
    /\ stats.now < MaxNow
    /\ stats' = [stats EXCEPT !.now = @ + 1, !.lastEvent = "time"]
    /\ UNCHANGED <<ver, page, runner, theme, themeHist, car, carHist, nav,
                   modal, form, post, anim>>

\* The page scrolls to y and the scroll event is dispatched.
Scroll(y) ==
    /\ nav.bound
    /\ y \in ScrollStops(ver, page)
    /\ y # nav.scrollY
    /\ nav' = [scrollListener(ver, page, [nav EXCEPT !.scrollY = y]) EXCEPT
                  !.scrollsSince = Min(@ + 1, 2),
                  !.lastEvent = "scroll"]
    /\ UNCHANGED <<ver, page, runner, theme, themeHist, car, carHist, stats,
                   modal, form, post, anim>>

\* An animation frame: the frame callback runs if one was asked for.
\* served keeps how many scroll events (up to 2) that callback answers.
AnimationFrame ==
    /\ nav.bound
    /\ LET n == [nav EXCEPT !.sinceFrame = 0, !.lastEvent = "frame"]
       IN nav' = IF n.ticking
                 THEN [scrollFrame(ver, page, n) EXCEPT
                          !.served = n.scrollsSince, !.scrollsSince = 0]
                 ELSE n
    /\ UNCHANGED <<ver, page, runner, theme, themeHist, car, carHist, stats,
                   modal, form, post, anim>>

\* The timeout of the throttled link listener expires.
ThrottleTimeout ==
    /\ nav.inThrottle
    /\ nav' = [nav EXCEPT !.inThrottle = FALSE, !.sinceTimeout = 0,
                          !.scrollsSince = 0,
                          !.lastEvent = "timeout"]
    /\ UNCHANGED <<ver, page, runner, theme, themeHist, car, carHist, stats,
                   modal, form, post, anim>>

\* The timeout of part_000's throttled header listener expires.
HeaderThrottleTimeout ==
    /\ nav.inThrottleHeader
    /\ nav' = [nav EXCEPT !.inThrottleHeader = FALSE,
                          !.lastEvent = "headerTimeout"]
    /\ UNCHANGED <<ver, page, runner, theme, themeHist, car, carHist, stats,
                   modal, form, post, anim>>

\* A menu handler has run: the navigation state it leaves, with what the
\* event was (observation only), and the body's overflow it leaves.
MenuEvent(r, event) ==
    /\ nav' = [r.nav EXCEPT !.menuEvent = event]
    /\ modal' = [modal EXCEPT !.overflow = r.body]
    /\ UNCHANGED <<ver, page, runner, theme, themeHist, car, carHist, stats,
                   form, post, anim>>

\* click on #nav-toggle
NavToggleClick ==
    /\ nav.toggleBound
    /\ MenuEvent(navToggleClick(ver, page, nav, modal.overflow), "toggle")

\* click on #nav-close
NavCloseClick ==
    /\ nav.closeBound
    /\ MenuEvent(navCloseClick(ver, page, nav, modal.overflow), "close")

\* click on a .nav__link
NavLinkClick ==
    /\ nav.linkBound
    /\ MenuEvent(navLinkClick(ver, page, nav, modal.overflow), "link")

\* click on the page outside the menu, its toggle and every other control
OutsideClick ==
    /\ nav.docBound
    /\ MenuEvent(documentClick(ver, page, nav, modal.overflow, FALSE, FALSE),
                 "outside")

\* A click a dialog listener has handled goes on to the document's
\* listener: m is the dialog after its own handler.
Bubbles(m, event, inMenu) ==
    LET r == documentClick(ver, page, nav, m.overflow, inMenu, FALSE)
    IN  /\ modal' = [m EXCEPT !.overflow = r.body, !.lastEvent = event,
                              !.wasHidden = modal.hidden]
        /\ nav' = r.nav
        /\ UNCHANGED <<ver, page, runner, theme, themeHist, car, carHist,
                       stats, form, post, anim>>

\* The modal after an event, with what the event was and whether the
\* dialog was hidden before it (observation only).
After(m, event) == [m EXCEPT !.lastEvent = event, !.wasHidden = modal.hidden]

\* click on a .consultation-btn, one inside #nav-menu or one elsewhere
OpenClick(inMenu) ==
    /\ modal.openBound
    /\ Bubbles(openModal(ver, page, modal), "open", inMenu)

\* click on #modal-close (inside the dialog, so only while it shows)
CloseClick ==
    /\ modal.closeBound /\ ~modal.hidden
    /\ Bubbles(closeModal(ver, page, modal), "closeClick", FALSE)

\* click inside the showing dialog: on the container itself (the
\* backdrop) or on its content
ModalClick(target) ==
    /\ modal.clickBound /\ ~modal.hidden
    /\ Bubbles(modalClick(ver, page, modal, target),
               IF target = "modal" THEN "backdrop" ELSE "content", FALSE)

KeyDown(key) ==
    /\ modal.keyBound
    /\ modal' = After(keyDown(ver, page, modal, key),
                      IF key = "Escape" THEN "escape" ELSE "key")
    /\ UNCHANGED <<ver, page, runner, theme, themeHist, car, carHist, stats,
                   nav, form, post, anim>>

\* part_000's 100 ms timeout after opening: the first input gets focus
FocusTimeout ==
    /\ modal.focusTimer
    /\ modal' = After([modal EXCEPT !.focusTimer = FALSE, !.focused = TRUE],
                      "focus")
    /\ UNCHANGED <<ver, page, runner, theme, themeHist, car, carHist, stats,
                   nav, form, post, anim>>

\* part_000's 2 s timeout after a simulated consultation submission
ModalCloseTimeout ==
    /\ modal.closeTimers > 0
    /\ modal' = After([closeModal(ver, page, modal) EXCEPT
                          !.closeTimers = @ - 1], "closeTimer")
    /\ UNCHANGED <<ver, page, runner, theme, themeHist, car, carHist, stats,
                   nav, form, post, anim>>

\* The form can be used: it exists, and the consultation form, which is
\* inside the dialog, only while the dialog shows.
FormUsable ==
    /\ page.formKind # "none"
    /\ page.formKind = "consultation" => ~modal.hidden

\* The user changes a field.
Edit(field, c) ==
    /\ FormUsable
    /\ form' = [form EXCEPT ![field] = c, !.lastEvent = "edit"]
    /\ form'[field] # form[field]
    /\ UNCHANGED <<ver, page, runner, theme, themeHist, car, carHist, stats,
                   nav, modal, post, anim>>

\* The form's submit event. The browser dispatches it when a submit
\* control that is not disabled is used (the button the listener looks up,
\* or another one the markup has) and no required field is empty (a field
\* holding only white space is not empty for it). atSubmit.pending counts
\* the POSTs and reset timeouts of earlier submit events still outstanding.
Submit ==
    /\ FormUsable
    /\ form.bound
    /\ ~form.disabled \/ page.otherSubmit
    /\ form.required # "empty"
    /\ form.simTimers + modal.closeTimers < MaxPending
    /\ form.inflight + Len(form.resetTimers) < MaxPending
    /\ form' = [submitHandler(ver, page, form) EXCEPT
                   !.lastEvent = "submit",
                   !.atSubmit = [required |-> form.required,
                                 optional |-> form.optional,
                                 label |-> form.label,
                                 posts |-> form.posts,
                                 disabled |-> form.disabled,
                                 pending |-> form.inflight
                                             + Len(form.resetTimers)]]
    /\ UNCHANGED <<ver, page, runner, theme, themeHist, car, carHist, stats,
                   nav, modal, post, anim>>

\* The POST settles.
Response(outcome) ==
    /\ form.inflight > 0
    /\ form' = [responseHandler(ver, page, form, outcome) EXCEPT
                   !.lastEvent = "response"]
    /\ UNCHANGED <<ver, page, runner, theme, themeHist, car, carHist, stats,
                   nav, modal, post, anim>>

ResetTimeout ==
    /\ form.resetTimers # << >>
    /\ form' = [resetTimeout(form) EXCEPT !.lastEvent = "reset"]
    /\ UNCHANGED <<ver, page, runner, theme, themeHist, car, carHist, stats,
                   nav, modal, post, anim>>

\* part_000: the simulated submission completes; for the consultation
\* form it also sets the timeout that closes the dialog.
SimTimeout ==
    /\ form.simTimers > 0
    /\ form' = [simTimeout(page, form) EXCEPT !.lastEvent = "sim"]
    /\ modal' = IF page.formKind = "consultation"
                THEN [modal EXCEPT !.closeTimers = @ + 1]
                ELSE modal
    /\ UNCHANGED <<ver, page, runner, theme, themeHist, car, carHist, stats,
                   nav, post, anim>>

\* part_000: the 5 s timeout of ContactForm.showMessage removes the message
MessageTimeout ==
    /\ form.messageTimer
    /\ form' = [form EXCEPT !.message = "none", !.messageTimer = FALSE,
                            !.lastEvent = "message"]
    /\ UNCHANGED <<ver, page, runner, theme, themeHist, car, carHist, stats,
                   nav, modal, post, anim>>

\* The submit event of a form whose fields pass the checks: the listener
\* runs up to the fetch call.
SubmitPost ==
    /\ form.bound
    /\ ~post.done
    /\ post' = submitPost(ver, post)
    /\ UNCHANGED <<ver, page, runner, theme, themeHist, car, carHist, stats,
                   nav, modal, form, anim>>

\* The observer delivers a batch b: entries for some of the observed
\* elements, one each.
AnimNotify(b) ==
    /\ anim.bound
    /\ DOMAIN b # {}
    /\ DOMAIN b \subseteq anim.observed
    /\ anim' = [animCallback(anim, b) EXCEPT
                   !.seen = @ \cup {e \in DOMAIN b : b[e]}]
    /\ UNCHANGED <<ver, page, runner, theme, themeHist, car, carHist, stats,
                   nav, modal, form, post>>

NextRunner == AppInit \/ DOMContentLoaded

NextTheme == AppInit \/ DOMContentLoaded \/ ToggleClick \/ SystemPrefChange

NextCarousel ==
    \/ AppInit
    \/ DOMContentLoaded
    \/ \E i \in 0 .. (MaxButtons - 1) : NavClick(i)
    \/ MouseEnter
    \/ MouseLeave
    \/ Tick
    \/ \E h \in LiveTimers(car) : TimerFire(h)

EntryBatches == UNION { [1 .. n -> BOOLEAN] : n \in 1 .. MaxEntries }

NextStats ==
    \/ AppInit
    \/ DOMContentLoaded
    \/ \E entries \in EntryBatches : Notify(entries)
    \/ StartTimeout
    \/ \E ts \in -1 .. MaxNow : Frame(ts)
    \/ \E i \in 1 .. MaxCounters : IntervalFire(i)
    \/ TimePasses

NextNav ==
    \/ AppInit
    \/ DOMContentLoaded
    \/ \E y \in ScrollStops(ver, page) : Scroll(y)
    \/ AnimationFrame
    \/ ThrottleTimeout
    \/ HeaderThrottleTimeout

NextMenu ==
    \/ AppInit
    \/ DOMContentLoaded
    \/ NavToggleClick
    \/ NavCloseClick
    \/ NavLinkClick
    \/ OutsideClick
    \/ \E inMenu \in BOOLEAN : OpenClick(inMenu)
    \/ CloseClick
    \/ \E target \in {"modal", "content"} : ModalClick(target)
    \/ \E key \in {"Escape", "Enter"} : KeyDown(key)

NextForms ==
    \/ AppInit
    \/ DOMContentLoaded
    \/ \E inMenu \in BOOLEAN : OpenClick(inMenu)
    \/ CloseClick
    \/ \E target \in {"modal", "content"} : ModalClick(target)
    \/ \E key \in {"Escape", "Enter"} : KeyDown(key)
    \/ FocusTimeout
    \/ ModalCloseTimeout
    \/ \E c \in {"empty", "spaces", "text"} : Edit("required", c)
    \/ \E c \in {"empty", "text"} : Edit("optional", c)
    \/ Submit
    \/ \E outcome \in {"success", "failure", "error"} : Response(outcome)
    \/ ResetTimeout
    \/ SimTimeout
    \/ MessageTimeout

\* The batches an observer can deliver: entries for some elements
AnimBatches == UNION { [S -> BOOLEAN] : S \in SUBSET (1 .. MaxAnimEls) }

NextPost == AppInit \/ DOMContentLoaded \/ SubmitPost

NextAnim ==
    \/ AppInit
    \/ DOMContentLoaded
    \/ \E b \in AnimBatches : AnimNotify(b)

SpecRunner == InitRunner /\ [][NextRunner]_vars

\* The script does get executed and the document does finish parsing.
SpecRunnerFair ==
    /\ SpecRunner
    /\ WF_vars(AppInit)
    /\ WF_vars(DOMContentLoaded)

SpecTheme == InitTheme /\ [][NextTheme]_vars

SpecCarousel == InitCarousel /\ [][NextCarousel]_vars

SpecStats == InitStats /\ [][NextStats]_vars

\* Time passes, the display keeps redrawing while a frame is requested and
\* a live interval timer keeps firing.
SpecStatsFair ==
    /\ SpecStats
    /\ WF_vars(TimePasses)
    /\ WF_vars(\E ts \in -1 .. MaxNow : Frame(ts))
    /\ \A i \in 1 .. MaxCounters : WF_vars(IntervalFire(i))

SpecNav == InitNav /\ [][NextNav]_vars

SpecMenu == InitMenu /\ [][NextMenu]_vars

SpecForms == InitForms /\ [][NextForms]_vars

SpecPost == InitPost /\ [][NextPost]_vars

SpecAnim == InitAnim /\ [][NextAnim]_vars

(***************************************************************************)
(* Claims about the module runner (SpecRunner).                            *)
(***************************************************************************)
Invoked(m) == \E k \in 1 .. Len(runner.log) : runner.log[k] = m

Threw(m) ==
    \/ runner.uncaught = m
    \/ \E k \in 1 .. Len(runner.caught) : runner.caught[k] = m

\* C1: once the runner has run, every module listed after a module whose
\* init threw has had its init invoked all the same.
ErrorIsolation ==
    runner.phase = "ran" =>
        \A i \in 1 .. Len(Modules(ver)) :
            Threw(Modules(ver)[i]) =>
                \A j \in (i + 1) .. Len(Modules(ver)) :
                    Invoked(Modules(ver)[j])

\* C2: once the runner has run on the ready signal, the inits invoked are
\* those of the listed modules, each exactly once and in list order.
EachModuleOnceInOrder ==
    runner.phase = "ran" => runner.log = Modules(ver)

\* The part of C2 that holds in all three versions: the invocations are
\* always an initial stretch of the list, in order and without repeats.
InvokedPrefixInOrder ==
    /\ Len(runner.log) <= Len(Modules(ver))
    /\ \A k \in 1 .. Len(runner.log) : runner.log[k] = Modules(ver)[k]

\* Error isolation as the two earlier versions implement it.
ErrorIsolationWhereCaught ==
    RunnerCatches(ver) => ErrorIsolation /\ EachModuleOnceInOrder

CaughtErrorReached ==
    runner.phase = "ran" /\ Len(runner.caught) > 0

(***************************************************************************)
(* Claims about the theme (SpecTheme).                                     *)
(***************************************************************************)
\* C9: one toggle changes the stored value and the document attribute to
\* the other theme, and the second of two successive toggles brings both
\* back to what they were before the first.
DoubleToggleIsIdentity ==
    /\ themeHist.toggles >= 1 =>
          /\ theme.stored \in Themes /\ theme.attr \in Themes
          /\ theme.stored # themeHist.before1.stored
          /\ theme.attr # themeHist.before1.attr
          /\ themeHist.before1.stored \in Themes
          /\ themeHist.before1.attr \in Themes
    /\ themeHist.toggles = 2 =>
          /\ theme.stored = themeHist.before2.stored
          /\ theme.attr = themeHist.before2.attr

\* What holds of the double toggle: the identity wherever the storage
\* accepts the write.
DoubleToggleIsIdentityWhenWritten ==
    ~page.storageWriteFails => DoubleToggleIsIdentity

\* C10: right after ThemeToggle's init and right after every toggle the
\* document attribute is the stored preference if there is one and the
\* system preference otherwise, on every page.
ThemeMatchesPreference ==
    themeHist.lastOp \in {"init", "toggle"} =>
        theme.attr = getCurrentTheme(theme)

\* What holds of the theme invariant: pages with the toggle control (any
\* page for part_000) whose storage accepts the write.
ThemeMatchesPreferenceWhenWritten ==
    (~page.storageWriteFails /\ (page.hasToggle \/ ver = "part_000")) =>
        ThemeMatchesPreference

\* C11: the stored preference changes only in a toggle step, or in a
\* system-preference-change step taken while nothing is stored; no other
\* step, module initialisation included, changes it.
StoredWrittenOnlyByToggleOrSystem ==
    [][ theme'.stored # theme.stored =>
            \/ themeHist'.lastOp = "toggle"
            \/ themeHist'.lastOp = "system" /\ theme.stored = "none" ]_vars

\* What holds of the writes: besides those two, only ThemeToggle's init
\* writes, and it stores the theme it derived.
StoredWrittenOnlyByInitToggleOrSystem ==
    [][ theme'.stored # theme.stored =>
            \/ themeHist'.lastOp = "toggle"
            \/ themeHist'.lastOp = "system" /\ theme.stored = "none"
            \/ /\ themeHist'.lastOp = "init"
               /\ theme.stored = "none"
               /\ theme'.stored = getCurrentTheme(theme) ]_vars

(***************************************************************************)
(* Claims about the testimonials carousel (SpecCarousel).                  *)
(***************************************************************************)
SameDisplay(a, b) ==
    /\ a.currentSlide = b.currentSlide
    /\ a.slideActive = b.slideActive
    /\ a.btnActive = b.btnActive

\* exactly one live timer, held by the module, with e elapsed
OneTimer(c, e) ==
    /\ Cardinality(c.timers) = 1
    /\ \A x \in c.timers : x.h = c.autoplayTimer /\ x.t = e

\* C3: with n >= 2 slides, successive next() calls show indices of 0..n-1,
\* wrap from n-1 to 0, and come back to an index after exactly n calls and
\* not sooner; exactly one slide is marked active after each call.
NextCyclesWithPeriodN ==
    LET n == page.nSlides
        w == carHist.window
    IN n >= 2 =>
        /\ \A k \in 1 .. Len(w) : w[k] \in 0 .. (n - 1)
        /\ \A i \in 1 .. Len(w) : \A j \in (i + 1) .. Len(w) :
               (w[i] = w[j]) <=> (j - i = n)
        /\ \A k \in 1 .. (Len(w) - 1) : w[k] = n - 1 => w[k + 1] = 0
        /\ carHist.lastEvent = "fire" =>
               /\ Cardinality(car.slideActive) = 1
               /\ car.slideActive = {car.currentSlide}

\* a full period has been observed, starting from the last slide
NextCycleObserved ==
    /\ page.nSlides = MaxSlides
    /\ Len(carHist.window) = MaxSlides + 1
    /\ carHist.window[1] = MaxSlides - 1
    /\ carHist.lastEvent = "fire"

\* C4 as stated: once the module is initialised, on any page, exactly one
\* slide and exactly one navigation control are marked active, the control
\* being the one at the current index.
ExactlyOneActiveOnAnyPage ==
    carHist.lastEvent # "none" =>
        /\ Cardinality(car.slideActive) = 1
        /\ Cardinality(car.btnActive) = 1
        /\ car.btnActive = {car.currentSlide}

\* C4 amended: once a slide has been displayed (initial display or a later
\* transition), exactly one slide is marked active, the current one; at
\* most one control is marked active; and on a page with at least as many
\* controls as slides exactly one is, the one at the current index.
ExactlyOneActiveOnceShown ==
    car.shown =>
        /\ Cardinality(car.slideActive) = 1
        /\ car.slideActive = {car.currentSlide}
        /\ Cardinality(car.btnActive) <= 1
        /\ page.nButtons >= page.nSlides =>
               /\ Cardinality(car.btnActive) = 1
               /\ car.btnActive = {car.currentSlide}

\* an automatic advance to the last slide, every slide having its control
ActiveAfterAdvance ==
    /\ car.shown
    /\ page.nButtons >= page.nSlides
    /\ carHist.lastEvent = "fire"
    /\ car.currentSlide = 2

\* C5: with zero or one slide no autoplay timer exists and next() has
\* never been invoked, whatever events were delivered.
DegenerateNoAutoplay ==
    page.nSlides <= 1 =>
        /\ car.timers = {}
        /\ car.autoplayTimer = 0
        /\ ~car.nextInvoked

\* one slide, and a selector click and a hover have both been delivered
DegenerateEventsDelivered ==
    /\ page.nSlides = 1
    /\ carHist.lastEvent = "leave"
    /\ carHist.lastClick # NaN

\* C6: goTo(i) with i < 0 or i >= n leaves the current index and every
\* active mark as they are, in every reachable state; so does a click on
\* a selector whose number is out of range.
GoToOutOfRangeIsNoOp ==
    /\ \A i \in (0 - 2) .. (MaxButtons + 1) :
           (i < 0 \/ i >= page.nSlides) =>
               SameDisplay(goToSlide(ver, page, car, i), car)
    /\ (carHist.lastEvent = "click" /\ carHist.lastClick >= page.nSlides) =>
           SameDisplay(car, carHist.prev)

\* a click on a selector beyond the last slide, on a carousel in motion
OutOfRangeClickDelivered ==
    /\ carHist.lastEvent = "click"
    /\ carHist.lastClick >= page.nSlides
    /\ page.nSlides >= 2
    /\ car.currentSlide # 0

\* C7: pointer-enter cancels the timer and keeps the index; on a carousel
\* that autoplays (two or more slides) the following pointer-leave
\* schedules a fresh timer and keeps the index; the first automatic
\* advance after that resume shows the successor of the index held at the
\* pause.
PauseResumeKeepsIndex ==
    /\ carHist.lastEvent = "enter" =>
           /\ car.timers = {}
           /\ car.currentSlide = carHist.prev.currentSlide
    /\ (carHist.lastEvent = "leave" /\ page.nSlides >= 2) =>
           /\ OneTimer(car, carHist.sinceLast)
           /\ car.currentSlide = carHist.prev.currentSlide
    /\ (carHist.lastEvent = "fire" /\ carHist.resumedFire) =>
           /\ carHist.prev.currentSlide = carHist.pauseIndex
           /\ car.currentSlide = (carHist.pauseIndex + 1) % page.nSlides

\* the first advance after a resume, from a pause held at the last slide
AdvanceAfterResume ==
    /\ carHist.lastEvent = "fire"
    /\ carHist.resumedFire
    /\ carHist.pauseIndex = page.nSlides - 1
    /\ page.nSlides = MaxSlides

\* C8: a click on selector i, 0 <= i < n, makes i the current slide and
\* leaves exactly one timer, started at the click; no automatic advance
\* happens less than a full interval after a click.
ClickRestartsInterval ==
    /\ (carHist.lastEvent = "click" /\ carHist.lastClick < page.nSlides) =>
           /\ car.currentSlide = carHist.lastClick
           /\ page.nSlides >= 2 => OneTimer(car, carHist.sinceLast)
    /\ carHist.lastEvent = "fire" => carHist.sinceClick = IntervalUnits
    /\ \A x \in car.timers : x.t <= carHist.sinceClick

\* a click that interrupts an interval already partly elapsed
ClickDuringInterval ==
    /\ carHist.lastEvent = "click"
    /\ carHist.lastClick < page.nSlides
    /\ carHist.lastClick # carHist.prev.currentSlide
    /\ \E x \in carHist.prev.timers : x.t = IntervalUnits - 1
    /\ carHist.sinceLast = IntervalUnits - 1

(***************************************************************************)
(* Claims about the statistics counters (SpecStats).                       *)
(***************************************************************************)
\* A counter that animates from 0 to 100 and whose callback has run
FromZeroToHundred(c) == c.calls > 0 /\ c.start = 0 /\ c.target = 100

\* C12: for a counter animated from 0 to 100 over the duration, the value
\* displayed by a callback run at elapsed 0 is 0, the value displayed by a
\* callback run at elapsed >= duration is exactly 100, and no callback
\* displays less than the callback before it.
CounterValuesFollowElapsed ==
    \A i \in CounterIdx(stats) :
        LET c == stats.counters[i] IN
        FromZeroToHundred(c) =>
            /\ c.lastElapsed = 0 => c.text = 0
            /\ c.lastElapsed >= DurationUnits => c.text = 100
            /\ c.calls > 1 => c.prevText <= c.text

\* What holds in every version: the frame-driven animation of app.js and
\* part_001 follows the elapsed time as C12 says; the interval-driven one
\* of part_000 never decreases and never passes 100, and shows 100 once
\* its interval has run duration / 16 times, however long that took.
CounterValuesFollowElapsedInFrames ==
    \A i \in CounterIdx(stats) :
        LET c == stats.counters[i] IN
        FromZeroToHundred(c) =>
            /\ c.calls > 1 => c.prevText <= c.text
            /\ c.text <= 100
            /\ ver # "part_000" =>
                  /\ c.lastElapsed = 0 => c.text = 0
                  /\ c.lastElapsed >= DurationUnits => c.text = 100
            /\ ver = "part_000" =>
                  (c.current = 100 * DurationUnits <=> c.text = 100)

\* C13: whatever batches of entries the observer delivers, no counter's
\* animation is set off more than once, and once a batch has reported
\* sufficient visibility every counter's animation has been set off.
CounterTriggerOneShot ==
    \A i \in CounterIdx(stats) :
        /\ stats.counters[i].triggers <= 1
        /\ stats.visibleReported => stats.counters[i].triggers = 1

\* What holds in every version: no counter is set off or started twice,
\* and none is set off before a batch reported sufficient visibility.
CounterStartedAtMostOnce ==
    \A i \in CounterIdx(stats) :
        /\ stats.counters[i].triggers <= 1
        /\ stats.counters[i].starts <= stats.counters[i].triggers
        /\ stats.counters[i].triggers = 1 => stats.visibleReported

(***************************************************************************)
(* Claims about the navigation (SpecNav).                                  *)
(***************************************************************************)
\* Section k's top is past the highlighter's offset at scroll position y
PastThreshold(k, y) ==
    IF ver = "part_000"
    THEN y + ActiveOffset(ver) >= SectionTop(page, k)
    ELSE SectionTop(page, k) - y < ActiveOffset(ver)

\* True once a recomputation has run
Recomputed == nav.computedAt # NaN

\* C14: after a recomputation at a scroll position past the threshold of
\* section k and not past that of section k + 1 (if there is one), the
\* links marked active are exactly those that reference section k.
HighlighterMarksCurrentSection ==
    Recomputed =>
        \A k \in SectionIdx(page) :
            ( /\ PastThreshold(k, nav.computedAt)
              /\ k < page.nSections => ~PastThreshold(k + 1, nav.computedAt) )
            => nav.active = LinksTo(page, k)

\* What holds in every version: the same, where the position is also
\* inside section k's own extent for part_000.
HighlighterMarksQualifyingSection ==
    Recomputed =>
        \A k \in SectionIdx(page) :
            ( /\ PastThreshold(k, nav.computedAt)
              /\ k < page.nSections => ~PastThreshold(k + 1, nav.computedAt)
              /\ ver = "part_000" => Qualifies(ver, page, nav.computedAt, k) )
            => nav.active = LinksTo(page, k)

\* C15: after a recomputation at a scroll position where no section is
\* past the threshold, no link is marked active.
NoSectionNoActiveLink ==
    ( /\ Recomputed
      /\ \A k \in SectionIdx(page) : ~PastThreshold(k, nav.computedAt) )
    => nav.active = {}

\* What holds of app.js and part_001: no link but one whose href is the
\* bare "#" is marked then.
NoSectionNoSectionLinkActive ==
    ( /\ Recomputed
      /\ ver # "part_000"
      /\ \A k \in SectionIdx(page) : ~PastThreshold(k, nav.computedAt) )
    => nav.active = LinksTo(page, 0)

CloseEvents == {"closeClick", "backdrop", "escape"}

\* C17: after an open action the dialog is not hidden, the body does not
\* scroll and aria-hidden is "false"; after a close action the dialog is
\* hidden, the body scrolls again and aria-hidden is "true"; so after
\* either the hidden class and aria-hidden agree.
ModalOpenCloseEffects ==
    /\ modal.lastEvent = "open" =>
          ~modal.hidden /\ modal.overflow = "hidden" /\ modal.aria = "false"
    /\ (modal.lastEvent \in CloseEvents /\ ~modal.wasHidden) =>
          modal.hidden /\ modal.overflow = "" /\ modal.aria = "true"
    /\ modal.lastEvent \in CloseEvents \cup {"open"} =>
          (modal.hidden <=> modal.aria = "true")

\* What holds in every version: open shows the dialog and close hides it;
\* part_000 and part_001 also stop and restore the body's scrolling, and
\* part_001 also keeps aria-hidden in step.
ModalOpenCloseEffectsByVersion ==
    /\ modal.lastEvent = "open" =>
          /\ ~modal.hidden
          /\ ver # "app" => modal.overflow = "hidden"
          /\ ver = "part_001" => modal.aria = "false"
    /\ (modal.lastEvent \in CloseEvents /\ ~modal.wasHidden) =>
          /\ modal.hidden
          /\ ver # "app" => modal.overflow = ""
          /\ ver = "part_001" => modal.aria = "true"

\* C18: the dialog goes from showing to hidden only by a click on the
\* close control, a click on the dialog container itself or an Escape key
\* press, and a click on its content leaves it showing.
ModalClosedOnlyByUser ==
    /\ (~modal.wasHidden /\ modal.hidden) => modal.lastEvent \in CloseEvents
    /\ modal.lastEvent = "content" => ~modal.hidden

\* What holds in every version: besides those three, only the timeout
\* part_000 sets after a simulated consultation submission hides it.
ModalClosedByUserOrCloseTimer ==
    /\ (~modal.wasHidden /\ modal.hidden) =>
          \/ modal.lastEvent \in CloseEvents
          \/ modal.lastEvent = "closeTimer" /\ ver = "part_000"
    /\ modal.lastEvent = "content" => ~modal.hidden

\* C19: a submit event on a form whose required field is blank sends no
\* request, leaves the submit control enabled with the label it had, and
\* leaves every field as it was (the control being enabled before it).
BlankRequiredNotSubmitted ==
    (/\ form.lastEvent = "submit"
     /\ Blank(form.atSubmit.required)
     /\ ~form.atSubmit.disabled) =>
        /\ form.result # "posted"
        /\ ~form.disabled
        /\ form.label = form.atSubmit.label
        /\ form.required = form.atSubmit.required
        /\ form.optional = form.atSubmit.optional

\* What holds of part_000 and part_001, which test the trimmed values
BlankRequiredNotSubmittedWhereChecked ==
    ver # "app" => BlankRequiredNotSubmitted

\* C20: when the response says success the fields are back at their
\* defaults, and when the timeout set after it has expired the submit
\* control is enabled and has the label it had before the submit (for a
\* submit event that found nothing of an earlier one outstanding).
SuccessResetsAndRestoresLabel ==
    /\ (form.lastEvent = "response" /\ form.result = "success") =>
          form.required = "empty" /\ form.optional = "empty"
    /\ (/\ form.lastEvent = "reset"
        /\ form.result = "success"
        /\ form.atSubmit.pending = 0) =>
          ~form.disabled /\ form.label = form.atSubmit.label

\* What holds in every version: the fields are reset and the control is
\* enabled again; app.js writes back the label read at the submit,
\* part_001 writes 'Submit'.
SuccessResetsAndEnables ==
    /\ (form.lastEvent = "response" /\ form.result = "success") =>
          form.required = "empty" /\ form.optional = "empty"
    /\ (/\ form.lastEvent = "reset"
        /\ form.result = "success"
        /\ form.atSubmit.pending = 0) =>
          /\ ~form.disabled
          /\ ver = "app" => form.label = form.atSubmit.label
          /\ ver = "part_001" => form.label = "Submit"

\* C21: whenever a POST of the form is outstanding, the submit control is
\* disabled and shows the in-flight label.
InFlightControlDisabled ==
    form.inflight > 0 => form.disabled /\ form.label = "Sending..."

\* What holds when the button the listener looks up is the form's only
\* submit control, so that no submit event arrives while it is disabled
InFlightControlDisabledSoleControl ==
    ~page.otherSubmit => InFlightControlDisabled

ErrorLabel(v) == IF v = "app" THEN "Error! Try Again." ELSE "Error! Try Again"

FailureOutcomes == {"failure", "error"}

\* C22: when a POST settles with success false, an unparsable body or a
\* network error, the control shows the error label, the fields keep
\* their values, no POST is issued and the reset timeout is set; a POST is
\* issued only by a submit event, one per event; the reset timeout leaves
\* the control enabled.
FailureShowsErrorKeepsFieldsNoRetry ==
    [][ /\ (form'.inflight < form.inflight
            /\ form'.result \in FailureOutcomes) =>
              /\ form'.label = ErrorLabel(ver)
              /\ form'.required = form.required
              /\ form'.optional = form.optional
              /\ form'.posts = form.posts
              /\ form'.inflight = form.inflight - 1
              /\ Len(form'.resetTimers) = Len(form.resetTimers) + 1
        /\ (form'.posts # form.posts \/ form'.inflight > form.inflight) =>
              /\ form'.lastEvent = "submit"
              /\ form'.posts = Min(form.posts + 1, 2)
              /\ form'.inflight = form.inflight + 1
        /\ Len(form'.resetTimers) < Len(form.resetTimers) =>
              ~form'.disabled ]_vars

\* A failed submission whose reset timeout has expired: the control is
\* enabled, the fields still hold what was entered, one POST was issued.
FailedSubmissionReset ==
    /\ form.lastEvent = "reset"
    /\ form.result \in FailureOutcomes
    /\ ~form.disabled
    /\ form.required = "text"
    /\ form.optional = "text"
    /\ form.posts = 1

\* the entries of the form data that are not named access_key
OwnFields(es) == {i \in 1 .. Len(es) : es[i].name # "access_key"}

\* C23: the body of a POST holds every name/value pair of the form and the
\* configured token under access_key (a field named access_key does not
\* replace it), and no POST is issued when no token is configured.
PostBodyHasFieldsAndToken ==
    /\ post.sent =>
          /\ \A i \in OwnFields(post.entries) :
                post.body[post.entries[i].name] = post.entries[i].value
          /\ post.body["access_key"] = post.token
    /\ (post.done /\ post.token = "empty") => ~post.sent

\* What both scripts do: each name carries the value of its last entry,
\* access_key carries the configured token, and the POST is skipped exactly
\* when the script's own test of the token fails.
PostBodyHasLastValuesAndToken ==
    /\ post.sent =>
          /\ \A i \in OwnFields(post.entries) :
                (\A j \in OwnFields(post.entries) :
                    post.entries[j].name = post.entries[i].name => j <= i)
                => post.body[post.entries[i].name] = post.entries[i].value
          /\ post.body["access_key"] = post.token
    /\ (post.done /\ ver # "part_000") =>
          (post.sent <=> ~tokenMissing(ver, post.token))

\* C24: whatever element of the page is absent, no module's init raises
\* an error and no event handler that runs later raises one.
MissingElementsRaiseNoError ==
    /\ runner.caught = << >>
    /\ runner.uncaught = "none"
    /\ form.result # "threw"

\* What holds of the forms: part_000 tests the submit button before it
\* uses it; app.js and part_001 are safe only when the form has one.
MissingSubmitButtonGuarded ==
    /\ runner.caught = << >>
    /\ runner.uncaught = "none"
    /\ (ver = "part_000" \/ page.hasSubmitButton) => form.result # "threw"

\* C25: when the Swiper library is not defined, the init of
\* SwiperCarousels creates no instance and raises no error, and every
\* module listed after it has its init invoked.
SwiperMissingIsNoOp ==
    (runner.phase = "ran" /\ ~page.hasSwiper) =>
        \A i \in 1 .. Len(Modules(ver)) :
            (Modules(ver)[i] = "SwiperCarousels" /\ Invoked("SwiperCarousels"))
            => /\ runner.swipers = 0
               /\ ~Threw("SwiperCarousels")
               /\ \A j \in (i + 1) .. Len(Modules(ver)) :
                     Invoked(Modules(ver)[j])

\* The runner reached SwiperCarousels without the library and went on to
\* the last module.
SwiperMissingSkipped ==
    /\ runner.phase = "ran"
    /\ ~page.hasSwiper
    /\ Invoked("SwiperCarousels")
    /\ runner.swipers = 0
    /\ Invoked("ScrollAnimations")

Max(a, b) == IF a >= b THEN a ELSE b

\* the value counter c shows lies between its start value and its target
WithinStartAndTarget(c) ==
    /\ Min(c.start, c.target) <= c.text
    /\ c.text <= Max(c.start, c.target)

\* C26: after every run of the frame callback of app.js and part_001,
\* whatever its timestamp, the progress is in [0, 1] (the elapsed time is
\* not negative, the upper end being cut at 1) and the value displayed is
\* between the start value and the target.
EasingClamped ==
    ver # "part_000" =>
        \A i \in CounterIdx(stats) :
            LET c == stats.counters[i] IN
            c.calls > 0 => c.lastElapsed >= 0 /\ WithinStartAndTarget(c)

\* What holds: progress is cut at 1 only; a frame whose timestamp is not
\* earlier than the recorded start displays a value in the range.
EasingClampedFromStartOn ==
    ver # "part_000" =>
        \A i \in CounterIdx(stats) :
            LET c == stats.counters[i] IN
            (c.calls > 0 /\ c.lastElapsed >= 0) => WithinStartAndTarget(c)

\* counter i is being animated and the clock of the model can still
\* reach the end of its duration
AnimationUnderWay(i) ==
    /\ i \in CounterIdx(stats)
    /\ stats.counters[i].running
    /\ stats.counters[i].startTime + DurationUnits < MaxNow

\* counter i shows its target and has no frame request or interval timer
AnimationFinished(i) ==
    /\ i \in CounterIdx(stats)
    /\ ~stats.counters[i].running
    /\ stats.counters[i].text = stats.counters[i].target

\* C27: an animation under way leads to a state in which the counter
\* shows exactly its target and nothing of the animation is outstanding,
\* whether the target is above, at or below the start value.
CounterAnimationTerminates ==
    \A i \in 1 .. MaxCounters : AnimationUnderWay(i) ~> AnimationFinished(i)

\* A counter that was animated downwards, from 120 to 100, and has
\* finished on its target.
CounterFinishedDownwards ==
    \E i \in CounterIdx(stats) :
        /\ AnimationFinished(i)
        /\ stats.counters[i].calls > 0
        /\ stats.counters[i].start = 120

\* C28: the reset that enables the submit control again does not wait for
\* the request: whenever a submission has disabled the control, the reset
\* timeout is pending, whether or not the POST has settled.
ResetPendingWhileDisabled ==
    (ver # "part_000" /\ form.disabled) => form.resetTimers # << >>

\* What holds: the timeout is set in the finally block, after the fetch
\* has settled; until then the control is disabled with the POST
\* outstanding and no timeout pending.
ResetPendingOnceSettled ==
    (ver # "part_000" /\ form.disabled) =>
        \/ form.resetTimers # << >>
        \/ form.inflight > 0

\* the step is an Escape key press that found the dialog hidden
EscapeOnHidden == modal.hidden /\ modal' # modal /\ modal'.lastEvent = "escape"

\* C29: an Escape key press while the dialog is hidden leaves the hidden
\* class, aria-hidden and the body's overflow as they were.
EscapeOnHiddenChangesNothing ==
    [][ EscapeOnHidden =>
          /\ modal'.hidden = modal.hidden
          /\ modal'.aria = modal.aria
          /\ modal'.overflow = modal.overflow ]_vars

\* What holds: part_000 and app.js test the hidden class before closing;
\* part_001 closes on every Escape, which changes nothing only when the
\* markup already carries aria-hidden="true".
EscapeOnHiddenChangesNothingWhereTested ==
    [][ (EscapeOnHidden /\ (ver # "part_001" \/ page.ariaMarkup = "true")) =>
          /\ modal'.hidden = modal.hidden
          /\ modal'.aria = modal.aria
          /\ modal'.overflow = modal.overflow ]_vars

\* C30: every element has its fade-in applied at most once, namely when
\* the first intersecting entry for it is delivered, and from then on it
\* is not observed, while the elements not yet triggered stay observed.
FadeInOncePerElement ==
    anim.bound =>
        \A e \in AnimIdx(page) :
            /\ anim.applied[e] <= 1
            /\ anim.applied[e] = 1 <=> e \in anim.seen
            /\ e \in anim.observed <=> anim.applied[e] = 0

\* One element has been faded in and is no longer observed while another
\* one is still waiting.
FadedInAndStillObserving ==
    /\ anim.bound
    /\ \E e \in AnimIdx(page) : anim.applied[e] = 1 /\ e \notin anim.observed
    /\ \E e \in AnimIdx(page) : anim.applied[e] = 0 /\ e \in anim.observed

(***************************************************************************)
(* The menu and the body's overflow.                                       *)
(***************************************************************************)
\* C31: in part_000, the version that keeps a flag for the menu, on a page
\* with the menu container, isMenuOpen is TRUE exactly when #nav-menu
\* carries the class show-menu, after any toggle, close, outside and link
\* clicks (and any clicks on the dialog's controls).
MenuStateMirror ==
    (ver = "part_000" /\ page.hasNavMenu) =>
        (nav.isMenuOpen <=> nav.showMenu)

\* The menu has been opened by its toggle: flag and class are both set.
MenuOpenedByToggle ==
    /\ ver = "part_000" /\ page.hasNavMenu
    /\ nav.menuEvent = "toggle"
    /\ nav.isMenuOpen /\ nav.showMenu

\* C35: in part_000, where the menu and the dialog both write the body's
\* overflow, on a page with the menu and its toggle, background scrolling
\* is suppressed (overflow 'hidden') in every state in which the dialog is
\* visible or the menu is open.
ScrollSuppressedWhileMenuOrModalOpen ==
    (ver = "part_000" /\ page.hasNavMenu /\ page.hasNavToggle) =>
        ((~modal.hidden \/ nav.isMenuOpen) => modal.overflow = "hidden")

(***************************************************************************)
(* The carousel's timer under hover and selector clicks (SpecCarousel).    *)
(***************************************************************************)
\* C32: after any interleaving of init, pointer enter, pointer leave,
\* selector clicks and timer ticks, at most one carousel interval timer is
\* scheduled and not cancelled, and when there is one the handle the
\* module holds is that timer's.
AtMostOneLiveTimer ==
    /\ Cardinality(car.timers) <= 1
    /\ \A x \in car.timers : x.h = car.autoplayTimer

\* A pointer-leave that found a timer live (a selector click under the
\* pointer had started it) and left exactly one.
LeaveReplacesLiveTimer ==
    /\ carHist.lastEvent = "leave"
    /\ carHist.prev.timers # {}
    /\ Cardinality(car.timers) = 1

\* C33: between a pointer-enter and the next pointer-leave no autoplay
\* timer is live and no automatic advance happens, whatever selector
\* clicks are made in between.
HoverPauseHolds ==
    car.hovering =>
        /\ car.timers = {}
        /\ carHist.lastEvent # "fire"

(***************************************************************************)
(* The active link once scrolling has stopped (SpecNav).                   *)
(***************************************************************************)
\* No throttle timeout and no frame callback is pending, and the
\* highlighter has run at least once.
ScrollSettled ==
    /\ nav.bound
    /\ nav.computedAt # NaN
    /\ ~nav.inThrottle /\ ~nav.inThrottleHeader /\ ~nav.ticking

\* C34: after the last scroll event of a burst, once every pending timer
\* and frame callback has run, the links marked active are the ones the
\* highlighter gives at the final scroll position.
ActiveLinkCaughtUp ==
    ScrollSettled => nav.active = updateActiveLink(ver, page, nav).active

\* What holds: part_001's frame callback reads the scroll position when it
\* runs, so there the marks are those of the final position.
ActiveLinkCaughtUpByFrame ==
    (ver = "part_001" /\ ScrollSettled) =>
        /\ nav.computedAt = nav.scrollY
        /\ nav.active = updateActiveLink(ver, page, nav).active

(***************************************************************************)
(* Overlapping submissions of one form (SpecForms).                        *)
(***************************************************************************)
\* The last timeout of the submissions made has just fired: no POST is
\* outstanding and no reset or simulation timeout is pending.
AllResetsFired ==
    /\ form.bound
    /\ form.lastEvent \in {"reset", "sim"}
    /\ form.inflight = 0 /\ form.resetTimers = << >> /\ form.simTimers = 0

\* C36, for app.js: when submit events on one form have overlapped (the
\* latest one arrived while an earlier POST or reset timeout was
\* outstanding), then once every pending reset timeout has fired the
\* submit control is enabled and carries the label the markup gave it, the
\* one it had before the first submit event.
OverlappingSubmissionsRestoreControl ==
    (ver = "app" /\ AllResetsFired /\ form.atSubmit.pending > 0) =>
        /\ ~form.disabled
        /\ form.label = page.label

(***************************************************************************)
(* Whether the runner runs at all (SpecRunnerFair).                        *)
(***************************************************************************)
AllModulesInvoked ==
    \A i \in 1 .. Len(Modules(ver)) : Invoked(Modules(ver)[i])

\* C37: whether the script executes before or after the document's
\* DOMContentLoaded event, the init of every listed module is eventually
\* invoked (unless an init's uncaught error has ended the run, which is
\* C1's matter).
InitializationAlwaysHappens ==
    <>(AllModulesInvoked \/ runner.uncaught # "none")

\* What holds: part_000 tests document.readyState and runs the modules at
\* once when the event is already past.
InitializationHappensWithReadyStateTest ==
    (ver = "part_000") => <>AllModulesInvoked

====
